---- MODULE Spec2Model ----
(***************************************************************************)
(* Model of the command line parser of src/CommandLineParser.hpp: the      *)
(* registry (add), the token scan (parse), sub-argument consumption,       *)
(* positional consumption and the validation of required parameters.       *)
(*                                                                         *)
(* A token is a sequence of one-character strings, so that starts_with and *)
(* remove_prefix are computed on the characters as the code computes them. *)
(***************************************************************************)
EXTENDS Integers, Sequences, FiniteSets, TLC

VARIABLES
    objs,             \* the caller-owned descriptors that were constructed: id -> object
    m_short_to_long,  \* CommandLineParser::m_short_to_long
    m_long_to_short,  \* CommandLineParser::m_long_to_short
    m_args,           \* CommandLineParser::m_args: <<short, long>> -> id
    m_positional,     \* CommandLineParser::m_positional: id or NullPtr
    tokens,           \* the argument container handed to parse
    first,            \* parse's iterator `first`, as an index into tokens
    pc,               \* where the caller / parse is
    err,              \* the exception the last operation raised, or NoError
    reads,            \* log of the ParameterBase::read calls of the running parse
    outs              \* what print_help has written to its stream

vars == <<objs, m_short_to_long, m_long_to_short, m_args, m_positional,
          tokens, first, pc, err, reads, outs>>

registry == <<m_short_to_long, m_long_to_short, m_args, m_positional>>

-----------------------------------------------------------------------------
(* Bounds of the model *)

\* Longest token stream handed to parse.
MaxLen == 4

-----------------------------------------------------------------------------
(* Characters, strings and tokens *)

Min(a, b) == IF a < b THEN a ELSE b

\* Stand-in for std::numeric_limits<std::size_t>::max() (the default max_values
\* of a list positional): larger than any count of tokens the model can produce.
SizeMax == 2147483647

Digits == {"5", "6", "8"}

DigitVal(c) == CASE c = "5" -> 5 [] c = "6" -> 6 [] c = "8" -> 8 [] OTHER -> 0

Chars == {"-", " ", "5", "6", "8", "a", "g", "n", "s", "t"}

\* Character codes, as std::string_view's operator< compares them.
CharCode(c) ==
    CASE c = " " -> 32 [] c = "-" -> 45
      [] c = "5" -> 53 [] c = "6" -> 54 [] c = "8" -> 56
      [] c = "a" -> 97 [] c = "g" -> 103 [] c = "n" -> 110
      [] c = "s" -> 115 [] c = "t" -> 116
      [] OTHER -> 0

Empty == << >>

Separator == <<"-", "-">>                      \* "--"
Tok_n     == <<"-", "n">>                      \* "-n"
Tok_tags  == <<"-", "-", "t", "a", "g", "s">>  \* "--tags"
Tok_8     == <<"8">>                           \* "8"
Tok_6     == <<"6">>                           \* "6"

\* The tokens a stream is made of.
Tokens == {Separator, Tok_n, Tok_tags, Tok_8, Tok_6}

\* std::string_view::starts_with
starts_with(s, prefix) ==
    /\ Len(s) >= Len(prefix)
    /\ SubSeq(s, 1, Len(prefix)) = prefix

\* std::string_view::remove_prefix
remove_prefix(s, n) == SubSeq(s, n + 1, Len(s))

\* std::string_view's operator<: lexicographic on the character codes.
RECURSIVE StrLess(_, _)
StrLess(a, b) ==
    IF b = Empty THEN FALSE
    ELSE IF a = Empty THEN TRUE
    ELSE IF CharCode(Head(a)) # CharCode(Head(b))
         THEN CharCode(Head(a)) < CharCode(Head(b))
         ELSE StrLess(Tail(a), Tail(b))

\* std::pair's operator< on Key = pair<ShortName, LongName>.
KeyLess(k1, k2) ==
    \/ StrLess(k1[1], k2[1])
    \/ (k1[1] = k2[1] /\ StrLess(k1[2], k2[2]))

-----------------------------------------------------------------------------
(* Typed value reader: do_read<T> streams one token through operator>> *)

IsSpace(c) == c = " "

\* operator>> skips leading whitespace first.
RECURSIVE SkipWs(_)
SkipWs(s) ==
    IF s # Empty /\ IsSpace(Head(s)) THEN SkipWs(Tail(s)) ELSE s

\* The longest prefix of s made of digits.
RECURSIVE LeadingDigits(_)
LeadingDigits(s) ==
    IF s # Empty /\ Head(s) \in Digits
    THEN <<Head(s)>> \o LeadingDigits(Tail(s))
    ELSE Empty

\* The longest prefix of s without whitespace.
RECURSIVE UpToSpace(_)
UpToSpace(s) ==
    IF s # Empty /\ ~IsSpace(Head(s))
    THEN <<Head(s)>> \o UpToSpace(Tail(s))
    ELSE Empty

RECURSIVE DigitsValue(_, _)
DigitsValue(ds, acc) ==
    IF ds = Empty THEN acc
    ELSE DigitsValue(Tail(ds), acc * 10 + DigitVal(Head(ds)))

\* `ins >> t` for an integral T: optional sign, then digits; with no digit the
\* stream fails and t is set to 0.  The stream state is in `ok`.
ExtractInt(tok) ==
    LET s    == SkipWs(tok)
        neg  == s # Empty /\ Head(s) = "-"
        body == IF neg THEN Tail(s) ELSE s
        ds   == LeadingDigits(body)
    IN  IF ds = Empty
        THEN [ok |-> FALSE, val |-> 0]
        ELSE [ok |-> TRUE,
              val |-> IF neg THEN 0 - DigitsValue(ds, 0) ELSE DigitsValue(ds, 0)]

\* `ins >> t` for std::string: the characters up to the first whitespace; with
\* none the stream fails and t stays the default-constructed (empty) string.
ExtractString(tok) ==
    LET w == UpToSpace(SkipWs(tok))
    IN  [ok |-> w # Empty, val |-> w]

Extract(tok, vtype) ==
    IF vtype = "int" THEN ExtractInt(tok) ELSE ExtractString(tok)

\* do_read returns t and never looks at the state of the stream.
do_read(tok, vtype) == Extract(tok, vtype).val

\* The values do_read gives for the tokens toks[from .. to-1], in order.
RECURSIVE ReadRange(_, _, _, _)
ReadRange(toks, from, to, vtype) ==
    IF from >= to THEN Empty
    ELSE <<do_read(toks[from], vtype)>> \o ReadRange(toks, from + 1, to, vtype)

-----------------------------------------------------------------------------
(* Errors *)

NoError == [kind |-> "none", what |-> "none", name |-> Empty,
            supplied |-> 0, required |-> 0]

\* CLParseError raised by throw_parse_error
ParseError(what, name, supplied, required) ==
    [kind |-> "parse", what |-> what, name |-> name,
     supplied |-> supplied, required |-> required]

\* CLSetupError raised by throw_setup_error
SetupError(what, name) ==
    [kind |-> "setup", what |-> what, name |-> name,
     supplied |-> 0, required |-> 0]

\* std::out_of_range raised by std::map::at
OutOfRange ==
    [kind |-> "out_of_range", what |-> "map::at", name |-> Empty,
     supplied |-> 0, required |-> 0]

-----------------------------------------------------------------------------
(* Parameter descriptors *)

NullPtr == "nullptr"

\* NamedParameter<T, 1, 1>: NamedFixedParameterImpl<T, 1, 1>, one optional<T>.
SingleNamed(short, long, required, vtype) ==
    [positional |-> FALSE, impl |-> "single",
     short_name |-> short, long_name |-> long, required |-> required,
     num_values_min |-> 1, num_values_max |-> 1, vtype |-> vtype,
     set_by_user |-> FALSE, has_value |-> FALSE, values |-> Empty]

\* NamedParameter<T, n, n>: NamedFixedParameterImpl<T, n, n>.
FixedNamed(short, long, required, vtype, n) ==
    [positional |-> FALSE, impl |-> "fixed",
     short_name |-> short, long_name |-> long, required |-> required,
     num_values_min |-> n, num_values_max |-> n, vtype |-> vtype,
     set_by_user |-> FALSE, has_value |-> FALSE, values |-> Empty]

\* NamedParameter<T, runtime_decision>: NamedRuntimeParameterImpl<T>.
RuntimeNamed(short, long, required, vtype, min, max) ==
    [positional |-> FALSE, impl |-> "runtime",
     short_name |-> short, long_name |-> long, required |-> required,
     num_values_min |-> min, num_values_max |-> max, vtype |-> vtype,
     set_by_user |-> FALSE, has_value |-> FALSE, values |-> Empty]

\* The positional group: a list of values with arity [min, max].
PositionalGroup(required, vtype, min, max) ==
    [positional |-> TRUE, impl |-> "list",
     short_name |-> Empty, long_name |-> Empty, required |-> required,
     num_values_min |-> min, num_values_max |-> max, vtype |-> vtype,
     set_by_user |-> FALSE, has_value |-> TRUE, values |-> Empty]

get_min_arg_count(o) == o.num_values_min
get_max_arg_count(o) == o.num_values_max
is_required(o) == o.required
set_by_user(o) == o.set_by_user
is_variable_length(o) == get_min_arg_count(o) # get_max_arg_count(o)

\* Mutant of get_representation_name: always the short name.
get_representation_name_short(o) == o.short_name

\* CommandLineParser::get_representation_name
get_representation_name(o) ==
    IF o.long_name = Empty THEN o.short_name ELSE o.long_name

\* Mutant of ReadSingle: a value once stored is kept (first occurrence wins).
ReadSingle_keeps_first(o, toks, from, to) ==
    IF from = to
    THEN [raised |-> ParseError("missing_value", Empty, 0, 0), obj |-> o]
    ELSE [raised |-> NoError,
          obj |-> IF o.has_value THEN o
                  ELSE [o EXCEPT !.has_value = TRUE,
                                 !.values = <<do_read(toks[from], o.vtype)>>]]

\* NamedFixedParameterImpl<T,1,1>::read: throws on an empty range, else
\* stores the conversion of the first token.
ReadSingle(o, toks, from, to) ==
    IF from = to
    THEN [raised |-> ParseError("missing_value", Empty, 0, 0), obj |-> o]
    ELSE [raised |-> NoError,
          obj |-> [o EXCEPT !.has_value = TRUE,
                            !.values = <<do_read(toks[from], o.vtype)>>]]

\* NamedFixedParameterImpl::read and NamedRuntimeParameterImpl::read: reset
\* the optional, then push the conversion of every token of the range; the
\* optional stays disengaged when the range is empty.
ReadList(o, toks, from, to) ==
    [raised |-> NoError,
     obj |-> [o EXCEPT !.has_value = (from # to),
                       !.values = ReadRange(toks, from, to, o.vtype)]]

\* ListPositionalArguments::read_impl: drop the defaults on the first read,
\* then append the conversion of every token of the range.
ReadPositionalList(o, toks, from, to) ==
    [raised |-> NoError,
     obj |-> [o EXCEPT !.values =
                 (IF ~o.set_by_user THEN Empty ELSE o.values)
                     \o ReadRange(toks, from, to, o.vtype)]]

read_impl(o, toks, from, to) ==
    CASE o.impl = "single" -> ReadSingle(o, toks, from, to)
      [] o.impl \in {"fixed", "runtime"} -> ReadList(o, toks, from, to)
      [] OTHER -> ReadPositionalList(o, toks, from, to)

\* Mutant of read: m_set_by_user is assigned before read_impl is called.
read_sets_first(o, toks, from, to) ==
    LET r == read_impl(o, toks, from, to)
    IN  [raised |-> r.raised, obj |-> [r.obj EXCEPT !.set_by_user = TRUE]]

\* ParameterBase::read: read_impl, and only when it returned, m_set_by_user.
read(o, toks, from, to) ==
    LET r == read_impl(o, toks, from, to)
    IN  IF r.raised # NoError
        THEN r
        ELSE [raised |-> NoError, obj |-> [r.obj EXCEPT !.set_by_user = TRUE]]

-----------------------------------------------------------------------------
(* The descriptors the caller may construct *)

Name_n    == <<"n">>
Name_tags == <<"t", "a", "g", "s">>

Ids == {"n", "tags", "pos"}

\* The ways the caller constructs each named descriptor.
NamedVariants(id) ==
    IF id = "n"
    THEN {SingleNamed(Name_n, Empty, r, "int") : r \in BOOLEAN}
         \cup {FixedNamed(Name_n, Empty, FALSE, "int", 2)}
    ELSE {RuntimeNamed(Empty, Name_tags, r, "string", 0, SizeMax) : r \in BOOLEAN}

\* The ways the caller constructs the positional group.
PositionalVariants ==
    {PositionalGroup(r, "string", 0, SizeMax) : r \in BOOLEAN}
    \cup {PositionalGroup(FALSE, "string", 1, 2),
          PositionalGroup(TRUE, "string", 1, 1)}

\* The streams parse may be handed.
RECURSIVE SeqsUpTo(_, _)
SeqsUpTo(S, n) ==
    IF n = 0 THEN {Empty}
    ELSE LET shorter == SeqsUpTo(S, n - 1)
         IN  shorter \cup {Append(q, t) : q \in shorter, t \in S}

Streams == SeqsUpTo(Tokens, MaxLen)

-----------------------------------------------------------------------------
(* Registry *)

EmptyMap == [k \in {} |-> Empty]

\* std::map::emplace: inserts only when the key is absent.
emplace(m, k, v) == IF k \in DOMAIN m THEN m ELSE m @@ (k :> v)

Key(short, long) == <<short, long>>

Init ==
    /\ objs = EmptyMap
    /\ m_short_to_long = EmptyMap
    /\ m_long_to_short = EmptyMap
    /\ m_args = EmptyMap
    /\ m_positional = NullPtr
    /\ tokens = Empty
    /\ first = 1
    /\ pc = "setup"
    /\ err = NoError
    /\ reads = Empty
    /\ outs = Empty

\* The caller's descriptor `id`: the object it constructed before, or a newly
\* constructed one.
Constructed(id, o) == id \in DOMAIN objs => o = objs[id]

\* Mutant of AddPositional: the group is stored without the check.
AddPositional_overwrites(id, o) ==
    /\ pc = "setup"
    /\ Constructed(id, o)
    /\ objs' = emplace(objs, id, o)
    /\ m_positional' = id
    /\ err' = NoError
    /\ UNCHANGED <<m_short_to_long, m_long_to_short, m_args, tokens, first, pc, reads, outs>>

\* CommandLineParser::add(PositionalParameterBase&)
AddPositional(id, o) ==
    /\ pc = "setup"
    /\ Constructed(id, o)
    /\ objs' = emplace(objs, id, o)
    /\ IF m_positional # NullPtr
       THEN /\ err' = SetupError("positional_twice", Empty)
            /\ UNCHANGED m_positional
       ELSE /\ m_positional' = id
            /\ err' = NoError
    /\ UNCHANGED <<m_short_to_long, m_long_to_short, m_args, tokens, first, pc, reads, outs>>

\* Mutant of AddNamed: the long name is not looked up before the insertion.
AddNamed_no_long_check(id, o) ==
    LET short_name == o.short_name
        long_name  == o.long_name
        short_dup  == short_name # Empty /\ short_name \in DOMAIN m_short_to_long
    IN
    /\ pc = "setup"
    /\ Constructed(id, o)
    /\ objs' = emplace(objs, id, o)
    /\ IF short_name = Empty /\ long_name = Empty
       THEN /\ err' = SetupError("no_name", Empty)
            /\ UNCHANGED <<m_short_to_long, m_long_to_short, m_args>>
       ELSE IF short_dup
       THEN /\ err' = SetupError("short_name_exists", short_name)
            /\ UNCHANGED <<m_short_to_long, m_long_to_short, m_args>>
       ELSE /\ err' = NoError
            /\ m_short_to_long' = IF short_name # Empty
                                  THEN emplace(m_short_to_long, short_name, long_name)
                                  ELSE m_short_to_long
            /\ m_long_to_short' = IF long_name # Empty
                                  THEN emplace(m_long_to_short, long_name, short_name)
                                  ELSE m_long_to_short
            /\ m_args' = emplace(m_args, Key(short_name, long_name), id)
    /\ UNCHANGED <<m_positional, tokens, first, pc, reads, outs>>

\* Mutant of AddNamed: m_args takes a descriptor only at its end, so a
\* descriptor whose key comes before one it holds is not entered.
AddNamed_appends(id, o) ==
    LET short_name == o.short_name
        long_name  == o.long_name
        key        == Key(short_name, long_name)
    IN
    /\ pc = "setup"
    /\ Constructed(id, o)
    /\ objs' = emplace(objs, id, o)
    /\ IF short_name = Empty /\ long_name = Empty
       THEN /\ err' = SetupError("no_name", Empty)
            /\ UNCHANGED <<m_short_to_long, m_long_to_short, m_args>>
       ELSE IF short_name # Empty /\ short_name \in DOMAIN m_short_to_long
       THEN /\ err' = SetupError("short_name_exists", short_name)
            /\ UNCHANGED <<m_short_to_long, m_long_to_short, m_args>>
       ELSE IF long_name # Empty /\ long_name \in DOMAIN m_long_to_short
       THEN /\ err' = SetupError("long_name_exists", long_name)
            /\ m_short_to_long' = IF short_name # Empty
                                  THEN emplace(m_short_to_long, short_name, long_name)
                                  ELSE m_short_to_long
            /\ UNCHANGED <<m_long_to_short, m_args>>
       ELSE /\ err' = NoError
            /\ m_short_to_long' = IF short_name # Empty
                                  THEN emplace(m_short_to_long, short_name, long_name)
                                  ELSE m_short_to_long
            /\ m_long_to_short' = IF long_name # Empty
                                  THEN emplace(m_long_to_short, long_name, short_name)
                                  ELSE m_long_to_short
            /\ m_args' = IF \A k \in DOMAIN m_args : KeyLess(k, key)
                         THEN emplace(m_args, key, id)
                         ELSE m_args
    /\ UNCHANGED <<m_positional, tokens, first, pc, reads, outs>>

\* CommandLineParser::add(NamedParameterBase&).  A throw leaves what the
\* statements before it have inserted.
AddNamed(id, o) ==
    LET short_name == o.short_name
        long_name  == o.long_name
        short_dup  == short_name # Empty /\ short_name \in DOMAIN m_short_to_long
        s2l        == IF short_name # Empty
                      THEN emplace(m_short_to_long, short_name, long_name)
                      ELSE m_short_to_long
        long_dup   == long_name # Empty /\ long_name \in DOMAIN m_long_to_short
        l2s        == IF long_name # Empty
                      THEN emplace(m_long_to_short, long_name, short_name)
                      ELSE m_long_to_short
    IN
    /\ pc = "setup"
    /\ Constructed(id, o)
    /\ objs' = emplace(objs, id, o)
    /\ IF short_name = Empty /\ long_name = Empty
       THEN /\ err' = SetupError("no_name", Empty)
            /\ UNCHANGED <<m_short_to_long, m_long_to_short, m_args>>
       ELSE IF short_dup
       THEN /\ err' = SetupError("short_name_exists", short_name)
            /\ UNCHANGED <<m_short_to_long, m_long_to_short, m_args>>
       ELSE IF long_dup
       THEN /\ err' = SetupError("long_name_exists", long_name)
            /\ m_short_to_long' = s2l
            /\ UNCHANGED <<m_long_to_short, m_args>>
       ELSE /\ err' = NoError
            /\ m_short_to_long' = s2l
            /\ m_long_to_short' = l2s
            /\ m_args' = emplace(m_args, Key(short_name, long_name), id)
    /\ UNCHANGED <<m_positional, tokens, first, pc, reads, outs>>

-----------------------------------------------------------------------------
(* Parsing engine *)

\* parse's iterator `last`
last == Len(tokens) + 1

\* Mutant of get_number_available_sub_args: counts to the end of the stream,
\* without stopping at a dashed token.
get_number_available_sub_args_to_end(toks, from, to) ==
    IF from >= to THEN 0 ELSE to - from

\* Mutant of get_number_available_sub_args: a dash followed by a digit is
\* taken for a negative number and counted as a value.
RECURSIVE get_number_available_sub_args_numbers(_, _, _)
get_number_available_sub_args_numbers(toks, from, to) ==
    IF from >= to THEN 0
    ELSE IF /\ starts_with(toks[from], <<"-">>)
            /\ ~(Len(toks[from]) >= 2 /\ toks[from][2] \in Digits)
    THEN 0
    ELSE 1 + get_number_available_sub_args_numbers(toks, from + 1, to)

\* get_number_available_sub_args: the tokens of toks[from .. to-1] before the
\* first one that starts with '-'.
RECURSIVE get_number_available_sub_args(_, _, _)
get_number_available_sub_args(toks, from, to) ==
    IF from >= to THEN 0
    ELSE IF starts_with(toks[from], <<"-">>) THEN 0
    ELSE 1 + get_number_available_sub_args(toks, from + 1, to)

\* Mutant of parse_named_parameter_sub_arguments: the returned iterator is the
\* one that was passed in.
parse_named_parameter_sub_arguments_stays(o, toks, at, end) ==
    LET min_num_sub_arguments == get_min_arg_count(o)
        num_available_sub_arguments ==
            get_number_available_sub_args(toks, at + 1, end)
        max_num_sub_arguments == get_max_arg_count(o)
        number_to_read == Min(max_num_sub_arguments, num_available_sub_arguments)
        r == read(o, toks, at + 1, at + 1 + number_to_read)
    IN  IF num_available_sub_arguments < min_num_sub_arguments
        THEN [raised |-> ParseError("fewer_for_flag", get_representation_name(o),
                                    num_available_sub_arguments,
                                    min_num_sub_arguments),
              pos |-> at, obj |-> o, called |-> FALSE,
              from |-> at + 1, to |-> at + 1]
        ELSE [raised |-> r.raised,
              pos |-> at,
              obj |-> r.obj, called |-> TRUE,
              from |-> at + 1, to |-> at + 1 + number_to_read]

\* Mutant of parse_named_parameter_sub_arguments: the range handed to read
\* starts at the flag token instead of after it.
parse_named_parameter_sub_arguments_from_flag(o, toks, at, end) ==
    LET min_num_sub_arguments == get_min_arg_count(o)
        num_available_sub_arguments ==
            get_number_available_sub_args(toks, at + 1, end)
        max_num_sub_arguments == get_max_arg_count(o)
        number_to_read == Min(max_num_sub_arguments, num_available_sub_arguments)
        r == read(o, toks, at, at + number_to_read)
    IN  IF num_available_sub_arguments < min_num_sub_arguments
        THEN [raised |-> ParseError("fewer_for_flag", get_representation_name(o),
                                    num_available_sub_arguments,
                                    min_num_sub_arguments),
              pos |-> at, obj |-> o, called |-> FALSE,
              from |-> at + 1, to |-> at + 1]
        ELSE [raised |-> r.raised,
              pos |-> IF r.raised = NoError THEN at + 1 + number_to_read ELSE at,
              obj |-> r.obj, called |-> TRUE,
              from |-> at + 1, to |-> at + 1 + number_to_read]

\* Mutant of parse_named_parameter_sub_arguments: the check of the available
\* count against min_values is missing.
parse_named_parameter_sub_arguments_no_min(o, toks, at, end) ==
    LET num_available_sub_arguments ==
            get_number_available_sub_args(toks, at + 1, end)
        max_num_sub_arguments == get_max_arg_count(o)
        number_to_read == Min(max_num_sub_arguments, num_available_sub_arguments)
        r == read(o, toks, at + 1, at + 1 + number_to_read)
    IN  [raised |-> r.raised,
         pos |-> IF r.raised = NoError THEN at + 1 + number_to_read ELSE at,
         obj |-> r.obj, called |-> TRUE,
         from |-> at + 1, to |-> at + 1 + number_to_read]

\* Mutant of parse_named_parameter_sub_arguments: the whole run of available
\* tokens is read, without the cut at max_values.
parse_named_parameter_sub_arguments_whole_run(o, toks, at, end) ==
    LET min_num_sub_arguments == get_min_arg_count(o)
        num_available_sub_arguments ==
            get_number_available_sub_args(toks, at + 1, end)
        number_to_read == num_available_sub_arguments
        r == read(o, toks, at + 1, at + 1 + number_to_read)
    IN  IF num_available_sub_arguments < min_num_sub_arguments
        THEN [raised |-> ParseError("fewer_for_flag", get_representation_name(o),
                                    num_available_sub_arguments,
                                    min_num_sub_arguments),
              pos |-> at, obj |-> o, called |-> FALSE,
              from |-> at + 1, to |-> at + 1]
        ELSE [raised |-> r.raised,
              pos |-> IF r.raised = NoError THEN at + 1 + number_to_read ELSE at,
              obj |-> r.obj, called |-> TRUE,
              from |-> at + 1, to |-> at + 1 + number_to_read]

\* Mutant of parse_named_parameter_sub_arguments: the token that ends the run
\* is counted with the run.
parse_named_parameter_sub_arguments_past_run(o, toks, at, end) ==
    LET min_num_sub_arguments == get_min_arg_count(o)
        run == get_number_available_sub_args(toks, at + 1, end)
        num_available_sub_arguments ==
            IF at + 1 + run < end THEN run + 1 ELSE run
        max_num_sub_arguments == get_max_arg_count(o)
        number_to_read == Min(max_num_sub_arguments, num_available_sub_arguments)
        r == read(o, toks, at + 1, at + 1 + number_to_read)
    IN  IF num_available_sub_arguments < min_num_sub_arguments
        THEN [raised |-> ParseError("fewer_for_flag", get_representation_name(o),
                                    num_available_sub_arguments,
                                    min_num_sub_arguments),
              pos |-> at, obj |-> o, called |-> FALSE,
              from |-> at + 1, to |-> at + 1]
        ELSE [raised |-> r.raised,
              pos |-> IF r.raised = NoError THEN at + 1 + number_to_read ELSE at,
              obj |-> r.obj, called |-> TRUE,
              from |-> at + 1, to |-> at + 1 + number_to_read]

\* CommandLineParser::parse_named_parameter_sub_arguments for the flag token
\* at `at`: the exception raised (or NoError), the iterator returned, the
\* descriptor afterwards and the range handed to read (empty when not called).
parse_named_parameter_sub_arguments(o, toks, at, end) ==
    LET min_num_sub_arguments == get_min_arg_count(o)
        num_available_sub_arguments ==
            get_number_available_sub_args(toks, at + 1, end)
        max_num_sub_arguments == get_max_arg_count(o)
        number_to_read == Min(max_num_sub_arguments, num_available_sub_arguments)
        r == read(o, toks, at + 1, at + 1 + number_to_read)
    IN  IF num_available_sub_arguments < min_num_sub_arguments
        THEN [raised |-> ParseError("fewer_for_flag", get_representation_name(o),
                                    num_available_sub_arguments,
                                    min_num_sub_arguments),
              pos |-> at, obj |-> o, called |-> FALSE,
              from |-> at + 1, to |-> at + 1]
        ELSE [raised |-> r.raised,
              pos |-> IF r.raised = NoError THEN at + 1 + number_to_read ELSE at,
              obj |-> r.obj, called |-> TRUE,
              from |-> at + 1, to |-> at + 1 + number_to_read]

\* Mutant of parse_positionals: the check against min_values is missing.
parse_positionals_no_min(o, toks, from, to) ==
    LET num_available_sub_arguments == get_number_available_sub_args(toks, from, to)
        max_num_sub_arguments == get_max_arg_count(o)
        r == read(o, toks, from, to)
    IN  IF num_available_sub_arguments > max_num_sub_arguments
        THEN [raised |-> ParseError("more_for_positional", Empty,
                                    num_available_sub_arguments,
                                    max_num_sub_arguments),
              obj |-> o, called |-> FALSE]
        ELSE [raised |-> r.raised, obj |-> r.obj, called |-> TRUE]

\* CommandLineParser::parse_positionals on toks[from .. to-1].
parse_positionals(o, toks, from, to) ==
    LET min_num_sub_arguments == get_min_arg_count(o)
        num_available_sub_arguments == get_number_available_sub_args(toks, from, to)
        max_num_sub_arguments == get_max_arg_count(o)
        r == read(o, toks, from, to)
    IN  IF num_available_sub_arguments < min_num_sub_arguments
        THEN [raised |-> ParseError("fewer_for_positional", Empty,
                                    num_available_sub_arguments,
                                    min_num_sub_arguments),
              obj |-> o, called |-> FALSE]
        ELSE IF num_available_sub_arguments > max_num_sub_arguments
        THEN [raised |-> ParseError("more_for_positional", Empty,
                                    num_available_sub_arguments,
                                    max_num_sub_arguments),
              obj |-> o, called |-> FALSE]
        ELSE [raised |-> r.raised, obj |-> r.obj, called |-> TRUE]

ReadCall(id, from, to) == [id |-> id, from |-> from, to |-> to]

\* The caller hands a token stream to parse(first, last).
ParseBegin(toks) ==
    /\ pc = "setup"
    /\ tokens' = toks
    /\ first' = 1
    /\ pc' = "scan"
    /\ err' = NoError
    /\ reads' = Empty
    /\ UNCHANGED <<objs, registry, outs>>

\* The keys of m_args whose descriptor is required and was not set, given the
\* descriptors os.
MissingRequired(os) ==
    {k \in DOMAIN m_args :
        is_required(os[m_args[k]]) /\ ~set_by_user(os[m_args[k]])}

\* The first key of S in the iteration order of std::map<Key, ...>.
FirstKey(S) == CHOOSE k \in S : \A k2 \in S \ {k} : KeyLess(k, k2)

\* The validation of the required parameters that ends parse: the exception
\* it raises, or NoError.
validate_required(os) ==
    IF MissingRequired(os) # {}
    THEN ParseError("required_flag_not_provided",
             get_representation_name(os[m_args[FirstKey(MissingRequired(os))]]),
             0, 0)
    ELSE IF /\ m_positional # NullPtr
            /\ is_required(os[m_positional])
            /\ ~set_by_user(os[m_positional])
    THEN ParseError("required_positional_not_provided", Empty, 0, 0)
    ELSE NoError

\* parse from the end of the scan loop to its return or throw:
\*   if (m_positional) parse_positionals(*m_positional, first, last);
\* and then the validation of the required parameters.
AfterScan ==
    \E r \in {IF m_positional = NullPtr
              THEN [raised |-> NoError, called |-> FALSE]
              ELSE parse_positionals(objs[m_positional], tokens, first, last)} :
    \E os \in {IF m_positional = NullPtr
               THEN objs
               ELSE [objs EXCEPT ![m_positional] = r.obj]} :
        /\ objs' = os
        /\ reads' = IF r.called
                     THEN Append(reads, ReadCall(m_positional, first, last))
                     ELSE reads
        /\ err' = IF r.raised # NoError THEN r.raised ELSE validate_required(os)
        /\ pc' = IF err' = NoError THEN "done" ELSE "failed"
        /\ UNCHANGED <<registry, tokens, first, outs>>

\* while (first != last) is false: the scan loop ends.
ScanEnd ==
    /\ pc = "scan"
    /\ first = last
    /\ AfterScan

\* arg == "--": break.
ScanSeparator ==
    /\ pc = "scan"
    /\ first # last
    /\ tokens[first] = Separator
    /\ AfterScan

\* The rest of a named branch of parse once the name tables gave `key`:
\* m_args.at(key), then parse_named_parameter_sub_arguments.
ScanResolved(key) ==
    IF key \notin DOMAIN m_args
    THEN /\ err' = OutOfRange
         /\ pc' = "failed"
         /\ UNCHANGED <<objs, first, reads>>
    ELSE LET id == m_args[key]
         IN  \E r \in {parse_named_parameter_sub_arguments(objs[id], tokens, first, last)} :
             /\ objs' = [objs EXCEPT ![id] = r.obj]
             /\ reads' = IF r.called
                          THEN Append(reads, ReadCall(id, r.from, r.to))
                          ELSE reads
             /\ err' = r.raised
             /\ first' = r.pos
             /\ pc' = IF r.raised = NoError THEN "scan" ELSE "failed"

\* arg.starts_with("--"): resolve the long name.
ScanLong ==
    /\ pc = "scan"
    /\ first # last
    /\ tokens[first] # Separator
    /\ starts_with(tokens[first], <<"-", "-">>)
    /\ LET long_name == remove_prefix(tokens[first], 2)
       IN  IF long_name \notin DOMAIN m_long_to_short
           THEN /\ err' = ParseError("not_a_valid_argument", long_name, 0, 0)
                /\ pc' = "failed"
                /\ UNCHANGED <<objs, first, reads>>
           ELSE ScanResolved(Key(m_long_to_short[long_name], long_name))
    /\ UNCHANGED <<registry, tokens, outs>>

\* Mutant of ScanShort: the descriptor is looked up under the short name
\* alone, without the long name the table gives.
ScanShort_short_key ==
    /\ pc = "scan"
    /\ first # last
    /\ ~starts_with(tokens[first], <<"-", "-">>)
    /\ starts_with(tokens[first], <<"-">>)
    /\ LET short_name == remove_prefix(tokens[first], 1)
       IN  IF short_name \notin DOMAIN m_short_to_long
           THEN /\ err' = ParseError("not_a_valid_argument", short_name, 0, 0)
                /\ pc' = "failed"
                /\ UNCHANGED <<objs, first, reads>>
           ELSE ScanResolved(Key(short_name, Empty))
    /\ UNCHANGED <<registry, tokens, outs>>

\* arg.starts_with('-'): resolve the short name.
ScanShort ==
    /\ pc = "scan"
    /\ first # last
    /\ ~starts_with(tokens[first], <<"-", "-">>)
    /\ starts_with(tokens[first], <<"-">>)
    /\ LET short_name == remove_prefix(tokens[first], 1)
       IN  IF short_name \notin DOMAIN m_short_to_long
           THEN /\ err' = ParseError("not_a_valid_argument", short_name, 0, 0)
                /\ pc' = "failed"
                /\ UNCHANGED <<objs, first, reads>>
           ELSE ScanResolved(Key(short_name, m_short_to_long[short_name]))
    /\ UNCHANGED <<registry, tokens, outs>>

\* Mutant of ScanOther: with a positional group registered the loop steps
\* over the token and goes on resolving flags.
ScanOther_skips ==
    /\ pc = "scan"
    /\ first # last
    /\ ~starts_with(tokens[first], <<"-">>)
    /\ IF m_positional = NullPtr
       THEN /\ err' = ParseError("leftover_arguments", Empty, 0, 0)
            /\ pc' = "failed"
            /\ UNCHANGED <<objs, registry, tokens, first, reads, outs>>
       ELSE /\ first' = first + 1
            /\ UNCHANGED <<objs, registry, tokens, pc, err, reads, outs>>

\* Mutant of ScanOther: the loop breaks whether or not a positional group is
\* registered.
ScanOther_breaks ==
    /\ pc = "scan"
    /\ first # last
    /\ ~starts_with(tokens[first], <<"-">>)
    /\ AfterScan

\* A token without a leading dash: leftover arguments, or break.
ScanOther ==
    /\ pc = "scan"
    /\ first # last
    /\ ~starts_with(tokens[first], <<"-">>)
    /\ IF m_positional = NullPtr
       THEN /\ err' = ParseError("leftover_arguments", Empty, 0, 0)
            /\ pc' = "failed"
            /\ UNCHANGED <<objs, registry, tokens, first, reads, outs>>
       ELSE AfterScan

\* The caller registers one of its descriptors.
Register ==
    /\ pc = "setup"
    /\ \/ \E o \in PositionalVariants : AddPositional("pos", o)
       \/ \E id \in {"n", "tags"} : \E o \in NamedVariants(id) : AddNamed(id, o)

\* The caller calls parse on a token stream.
Parse ==
    /\ pc = "setup"
    /\ \E toks \in Streams : ParseBegin(toks)

Next ==
    \/ Register
    \/ Parse
    \/ ScanEnd
    \/ ScanSeparator
    \/ ScanLong
    \/ ScanShort
    \/ ScanOther

Spec == Init /\ [][Next]_vars

\* One iteration of the scan loop of parse, or its exit.
ScanStep == ScanEnd \/ ScanSeparator \/ ScanLong \/ ScanShort \/ ScanOther

RunMaxLen == 2

\* No descriptor of that kind was registered.
NoDescriptor == [impl |-> "none"]

\* The registry after the caller has registered the descriptors sel gives
\* (sel[id] is a descriptor or NoDescriptor), each with one add.
RegisteredIds(sel) == {id \in DOMAIN sel : sel[id].impl # "none"}

RegisteredNamed(sel) == RegisteredIds(sel) \ {"pos"}

\* The state at the entry of parse(first, last), for every registry the caller
\* can build from its descriptors and every stream.
ParseEntry ==
    \E n_o \in NamedVariants("n") \cup {NoDescriptor} :
    \E tags_o \in NamedVariants("tags") \cup {NoDescriptor} :
    \E pos_o \in PositionalVariants \cup {NoDescriptor} :
        LET sel == [id \in Ids |-> CASE id = "n" -> n_o
                                     [] id = "tags" -> tags_o
                                     [] OTHER -> pos_o]
        IN  /\ objs = [id \in RegisteredIds(sel) |-> sel[id]]
            /\ m_short_to_long =
                   [s \in {sel[id].short_name : id \in RegisteredNamed(sel)} \ {Empty} |->
                       sel[CHOOSE id \in RegisteredNamed(sel) :
                               sel[id].short_name = s].long_name]
            /\ m_long_to_short =
                   [l \in {sel[id].long_name : id \in RegisteredNamed(sel)} \ {Empty} |->
                       sel[CHOOSE id \in RegisteredNamed(sel) :
                               sel[id].long_name = l].short_name]
            /\ m_args =
                   [k \in {Key(sel[id].short_name, sel[id].long_name) :
                               id \in RegisteredNamed(sel)} |->
                       CHOOSE id \in RegisteredNamed(sel) :
                           Key(sel[id].short_name, sel[id].long_name) = k]
            /\ m_positional = IF pos_o.impl = "none" THEN NullPtr ELSE "pos"
            /\ tokens \in SeqsUpTo(Tokens, RunMaxLen)
            /\ first = 1
            /\ pc = "scan"
            /\ err = NoError
            /\ reads = Empty
            /\ outs = Empty

\* One call of parse from its entry to its end.  A call that has started
\* keeps executing: the loop is sequential code that waits for nothing.
SpecRunning == ParseEntry /\ [][ScanStep]_vars /\ WF_vars(ScanStep)

-----------------------------------------------------------------------------
(* The engine variant of src/main.cpp: Switch, Counter, Single and List      *)
(* descriptors with default values, registered and parsed by its own         *)
(* CommandLineParser.  It works on the same state.                           *)

\* SwitchArgument: arity 0, a bool that starts false.
SwitchArgument(short, long, required) ==
    [positional |-> FALSE, impl |-> "switch",
     short_name |-> short, long_name |-> long, required |-> required,
     num_values_min |-> 0, num_values_max |-> 0, vtype |-> "bool",
     set_by_user |-> FALSE, has_value |-> TRUE, values |-> <<FALSE>>]

\* CountingArgument: arity 0, a count that starts at 0.
CountingArgument(short, long, required) ==
    [positional |-> FALSE, impl |-> "counter",
     short_name |-> short, long_name |-> long, required |-> required,
     num_values_min |-> 0, num_values_max |-> 0, vtype |-> "int",
     set_by_user |-> FALSE, has_value |-> TRUE, values |-> <<0>>]

\* SingleValueArgument<T>: arity 1, one value with a default.
SingleValueArgument(short, long, required, vtype, default_value) ==
    [positional |-> FALSE, impl |-> "single_value",
     short_name |-> short, long_name |-> long, required |-> required,
     num_values_min |-> 1, num_values_max |-> 1, vtype |-> vtype,
     set_by_user |-> FALSE, has_value |-> TRUE, values |-> <<default_value>>]

\* ListValueArgument<T>: arity [min, max], a vector with default values.
ListValueArgument(short, long, required, vtype, min, max, default_values) ==
    [positional |-> FALSE, impl |-> "list_value",
     short_name |-> short, long_name |-> long, required |-> required,
     num_values_min |-> min, num_values_max |-> max, vtype |-> vtype,
     set_by_user |-> FALSE, has_value |-> TRUE, values |-> default_values]

\* ListPositionalArguments<T>: arity [min, max], a vector with default values.
ListPositionalArguments(required, vtype, min, max, default_values) ==
    [positional |-> TRUE, impl |-> "list_positional",
     short_name |-> Empty, long_name |-> Empty, required |-> required,
     num_values_min |-> min, num_values_max |-> max, vtype |-> vtype,
     set_by_user |-> FALSE, has_value |-> TRUE, values |-> default_values]

\* ArgumentBase::is_positional
is_positional(o) == o.positional

\* SwitchArgument::read_impl
ReadSwitch(o) == [o EXCEPT !.values = <<TRUE>>]

\* Mutant of ReadCounter: the count is set to one instead of incremented.
ReadCounter_sets_one(o) == [o EXCEPT !.values = <<1>>]

\* CountingArgument::read_impl
ReadCounter(o) == [o EXCEPT !.values = <<o.values[1] + 1>>]

\* SingleValueArgument::read_impl: `ins >> m_value` on the first token.
ReadSingleValue(o, toks, from, to) ==
    [o EXCEPT !.values = <<do_read(toks[from], o.vtype)>>]

\* Mutant of ReadListValue: the vector is never cleared.
ReadListValue_keeps_defaults(o, toks, from, to) ==
    [o EXCEPT !.values = o.values \o ReadRange(toks, from, to, o.vtype)]

\* ListValueArgument::read_impl and ListPositionalArguments::read_impl: the
\* vector is cleared only while set_by_user is false, then every token of
\* the range is pushed back.
ReadListValue(o, toks, from, to) ==
    [o EXCEPT !.values =
        (IF ~o.set_by_user THEN Empty ELSE o.values)
            \o ReadRange(toks, from, to, o.vtype)]

\* ArgumentBase::read of src/main.cpp: read_impl, then m_set_by_user.
driver_read(o, toks, from, to) ==
    LET r == CASE o.impl = "switch" -> ReadSwitch(o)
               [] o.impl = "counter" -> ReadCounter(o)
               [] o.impl = "single_value" -> ReadSingleValue(o, toks, from, to)
               [] OTHER -> ReadListValue(o, toks, from, to)
    IN  [r EXCEPT !.set_by_user = TRUE]

\* The `throw <int>` statements of src/main.cpp.
ThrowInt(n) ==
    [kind |-> "int", what |-> "throw", name |-> Empty,
     supplied |-> n, required |-> 0]

\* The descriptors the caller of the variant may construct.
DriverNamedVariants(id) ==
    IF id = "n"
    THEN {SingleValueArgument(Name_n, Empty, FALSE, "int", 5),
          CountingArgument(Name_n, Empty, FALSE),
          SwitchArgument(Name_n, Empty, FALSE)}
    ELSE {ListValueArgument(Empty, Name_tags, FALSE, "string", 0, SizeMax, d) :
              d \in {Empty, <<Tok_6>>}}
         \cup {ListValueArgument(Empty, Name_tags, FALSE, "int", 0, SizeMax, <<5>>)}

DriverPositionalVariants ==
    {ListPositionalArguments(FALSE, "string", 0, SizeMax, d) :
         d \in {Empty, <<Tok_6>>}}
    \cup {ListPositionalArguments(FALSE, "int", 0, SizeMax, <<5>>)}

\* CommandLineParser::add(ArgumentBase&) of src/main.cpp.
DriverAdd(id, o) ==
    LET short_name == o.short_name
        long_name  == o.long_name
        s2l        == IF short_name # Empty
                      THEN emplace(m_short_to_long, short_name, long_name)
                      ELSE m_short_to_long
        l2s        == IF long_name # Empty
                      THEN emplace(m_long_to_short, long_name, short_name)
                      ELSE m_long_to_short
    IN
    /\ pc = "setup"
    /\ Constructed(id, o)
    /\ objs' = emplace(objs, id, o)
    /\ IF is_positional(o)
       THEN /\ IF m_positional # NullPtr
               THEN /\ err' = ThrowInt(82)
                    /\ UNCHANGED m_positional
               ELSE /\ err' = NoError
                    /\ m_positional' = id
            /\ UNCHANGED <<m_short_to_long, m_long_to_short, m_args>>
       ELSE /\ UNCHANGED m_positional
            /\ IF short_name = Empty /\ long_name = Empty
               THEN /\ err' = ThrowInt(3)
                    /\ UNCHANGED <<m_short_to_long, m_long_to_short, m_args>>
               ELSE IF short_name # Empty /\ short_name \in DOMAIN m_short_to_long
               THEN /\ err' = ThrowInt(8)
                    /\ UNCHANGED <<m_short_to_long, m_long_to_short, m_args>>
               ELSE IF long_name # Empty /\ long_name \in DOMAIN m_long_to_short
               THEN /\ err' = ThrowInt(9)
                    /\ m_short_to_long' = s2l
                    /\ UNCHANGED <<m_long_to_short, m_args>>
               ELSE /\ err' = NoError
                    /\ m_short_to_long' = s2l
                    /\ m_long_to_short' = l2s
                    /\ m_args' = emplace(m_args, Key(short_name, long_name), id)
    /\ UNCHANGED <<tokens, first, pc, reads, outs>>

\* CommandLineParser::parse_sub_arguments of src/main.cpp.
parse_sub_arguments(o, toks, at, end) ==
    LET min_num_sub_arguments == get_min_arg_count(o)
        num_available_sub_arguments ==
            get_number_available_sub_args(toks, at + 1, end)
        max_num_sub_arguments == get_max_arg_count(o)
        number_to_read == Min(max_num_sub_arguments, num_available_sub_arguments)
    IN  IF num_available_sub_arguments < min_num_sub_arguments
        THEN [raised |-> ThrowInt(28), pos |-> at, obj |-> o, called |-> FALSE,
              from |-> at + 1, to |-> at + 1]
        ELSE [raised |-> NoError, pos |-> at + 1 + number_to_read,
              obj |-> driver_read(o, toks, at + 1, at + 1 + number_to_read),
              called |-> TRUE,
              from |-> at + 1, to |-> at + 1 + number_to_read]

\* CommandLineParser::parse_positionals of src/main.cpp.
driver_parse_positionals(o, toks, from, to) ==
    LET min_num_sub_arguments == get_min_arg_count(o)
        num_available_sub_arguments == get_number_available_sub_args(toks, from, to)
        max_num_sub_arguments == get_max_arg_count(o)
    IN  IF num_available_sub_arguments < min_num_sub_arguments
        THEN [raised |-> ThrowInt(882), obj |-> o, called |-> FALSE]
        ELSE IF num_available_sub_arguments > max_num_sub_arguments
        THEN [raised |-> ThrowInt(74), obj |-> o, called |-> FALSE]
        ELSE [raised |-> NoError, obj |-> driver_read(o, toks, from, to),
              called |-> TRUE]

\* parse of src/main.cpp from the end of its loop to its return or throw:
\*   if (m_positional) parse_positionals(*m_positional, first, last);
\* There is no validation of required parameters.
DriverAfterScan ==
    \E r \in {IF m_positional = NullPtr
              THEN [raised |-> NoError, called |-> FALSE]
              ELSE driver_parse_positionals(objs[m_positional], tokens, first, last)} :
        /\ objs' = IF m_positional = NullPtr
                    THEN objs
                    ELSE [objs EXCEPT ![m_positional] = r.obj]
        /\ reads' = IF r.called
                     THEN Append(reads, ReadCall(m_positional, first, last))
                     ELSE reads
        /\ err' = r.raised
        /\ pc' = IF r.raised = NoError THEN "done" ELSE "failed"
        /\ UNCHANGED <<registry, tokens, first, outs>>

\* while (first != last) is false.
DriverScanEnd ==
    /\ pc = "scan"
    /\ first = last
    /\ DriverAfterScan

\* arg == "--": break.
DriverScanSeparator ==
    /\ pc = "scan"
    /\ first # last
    /\ tokens[first] = Separator
    /\ DriverAfterScan

\* The rest of a named branch once the name table gave `key`: m_args.at(key),
\* then parse_sub_arguments.
DriverScanResolved(key) ==
    IF key \notin DOMAIN m_args
    THEN /\ err' = OutOfRange
         /\ pc' = "failed"
         /\ UNCHANGED <<objs, first, reads>>
    ELSE LET id == m_args[key]
         IN  \E r \in {parse_sub_arguments(objs[id], tokens, first, last)} :
             /\ objs' = [objs EXCEPT ![id] = r.obj]
             /\ reads' = IF r.called
                          THEN Append(reads, ReadCall(id, r.from, r.to))
                          ELSE reads
             /\ err' = r.raised
             /\ first' = r.pos
             /\ pc' = IF r.raised = NoError THEN "scan" ELSE "failed"

\* arg.starts_with("--"): m_long_to_short.at(long_name) throws
\* std::out_of_range for an unknown name.
DriverScanLong ==
    /\ pc = "scan"
    /\ first # last
    /\ tokens[first] # Separator
    /\ starts_with(tokens[first], <<"-", "-">>)
    /\ LET long_name == remove_prefix(tokens[first], 2)
       IN  IF long_name \notin DOMAIN m_long_to_short
           THEN /\ err' = OutOfRange
                /\ pc' = "failed"
                /\ UNCHANGED <<objs, first, reads>>
           ELSE DriverScanResolved(Key(m_long_to_short[long_name], long_name))
    /\ UNCHANGED <<registry, tokens, outs>>

\* arg.starts_with('-')
DriverScanShort ==
    /\ pc = "scan"
    /\ first # last
    /\ ~starts_with(tokens[first], <<"-", "-">>)
    /\ starts_with(tokens[first], <<"-">>)
    /\ LET short_name == remove_prefix(tokens[first], 1)
       IN  IF short_name \notin DOMAIN m_short_to_long
           THEN /\ err' = OutOfRange
                /\ pc' = "failed"
                /\ UNCHANGED <<objs, first, reads>>
           ELSE DriverScanResolved(Key(short_name, m_short_to_long[short_name]))
    /\ UNCHANGED <<registry, tokens, outs>>

\* A token without a leading dash: no branch of the loop body is taken and
\* `first` is not advanced, so the loop comes back to the same token.
DriverScanOther ==
    /\ pc = "scan"
    /\ first # last
    /\ ~starts_with(tokens[first], <<"-">>)
    /\ UNCHANGED vars

DriverRegister ==
    /\ pc = "setup"
    /\ \/ \E o \in DriverPositionalVariants : DriverAdd("pos", o)
       \/ \E id \in {"n", "tags"} : \E o \in DriverNamedVariants(id) : DriverAdd(id, o)

DriverNext ==
    \/ DriverRegister
    \/ Parse
    \/ DriverScanEnd
    \/ DriverScanSeparator
    \/ DriverScanLong
    \/ DriverScanShort
    \/ DriverScanOther

SpecDriver == Init /\ [][DriverNext]_vars

-----------------------------------------------------------------------------
(* Registration with colliding and missing names, and print_help: the same  *)
(* parser of src/CommandLineParser.hpp, driven by a caller whose descriptors *)
(* share names.                                                              *)

SetupMaxLen == 2

Name_v == <<"v">>
Tok_v  == <<"-", "v">>
\* A value token that is not a number.
Tok_x  == <<"x">>

SetupTokens == {Separator, Tok_n, Tok_v, Tok_tags, Tok_x}

SetupStreams == SeqsUpTo(SetupTokens, SetupMaxLen)

\* The ways this caller constructs each of its named descriptors.
SetupNamedVariants ==
    {SingleNamed(Name_n, Empty, FALSE, "int"),
     RuntimeNamed(Name_n, Name_tags, FALSE, "string", 0, SizeMax),
     SingleNamed(Name_v, Name_tags, FALSE, "int"),
     SingleNamed(Name_v, Empty, TRUE, "int"),
     RuntimeNamed(Empty, Name_tags, FALSE, "string", 0, SizeMax),
     SingleNamed(Empty, Empty, FALSE, "int")}

\* The named descriptors this caller owns.
SetupNamedIds == {"a", "b", "c"}

\* Its first descriptor is never named v, its second never has the long name
\* alone, its third has the short name v only.
SetupNamedVariantsOf(id) ==
    CASE id = "a" -> {o \in SetupNamedVariants : o.short_name # Name_v}
      [] id = "b" -> {o \in SetupNamedVariants :
                         o.impl = "single" /\ ~(o.short_name = Name_v /\ o.long_name = Empty)}
      [] OTHER -> {SingleNamed(Name_v, Empty, TRUE, "int")}

\* The ways this caller constructs its positional groups.
SetupPositionalVariants(id) ==
    IF id = "pos" THEN PositionalVariants
    ELSE {PositionalGroup(FALSE, "string", 0, SizeMax)}

\* CommandLineParser::is_ambiguous
is_ambiguous ==
    IF m_positional = NullPtr
    THEN FALSE
    ELSE IF ~is_variable_length(objs[m_positional]) /\ is_required(objs[m_positional])
    THEN FALSE
    ELSE \E k \in DOMAIN m_args : is_variable_length(objs[m_args[k]])

\* The constants at the head of print_help.
has_optional_named       == TRUE
has_required_named       == TRUE
has_required_positionals == FALSE
has_optional_positionals == TRUE

\* The keys of the set S in the order std::map iterates them.
RECURSIVE InKeyOrder(_)
InKeyOrder(S) ==
    IF S = {} THEN Empty
    ELSE LET k == FirstKey(S) IN <<k>> \o InKeyOrder(S \ {k})

\* The "Required: name" and "Optional: name" lines of print_help.
HelpLines(keys, label) ==
    [i \in 1 .. Len(keys) |->
        <<label, get_representation_name(objs[m_args[keys[i]]])>>]

\* assert(m_positional) is false: the build with assertions aborts; the build
\* without them calls get_description through a null pointer.
AssertionFailed ==
    [kind |-> "assert", what |-> "m_positional", name |-> Empty,
     supplied |-> 0, required |-> 0]

NullDereference ==
    [kind |-> "undefined", what |-> "m_positional->get_description", name |-> Empty,
     supplied |-> 0, required |-> 0]

\* Mutant of UsageLine: the separator hint is always printed.
UsageLine_always_hint ==
    <<"Usage:">>
    \o (IF has_required_named THEN <<"<required flags>">> ELSE Empty)
    \o (IF has_optional_named THEN <<"[optional flags]">> ELSE Empty)
    \o <<"--">>

\* The usage line of print_help up to the positional placeholder.
UsageLine ==
    <<"Usage:">>
    \o (IF has_required_named THEN <<"<required flags>">> ELSE Empty)
    \o (IF has_optional_named THEN <<"[optional flags]">> ELSE Empty)
    \o (IF is_ambiguous THEN <<"--">> ELSE Empty)

\* The positional placeholder of the usage line.
Placeholder ==
    IF has_required_positionals THEN <<"<positional>">>
    ELSE IF has_optional_positionals THEN <<"[positional]">>
    ELSE Empty

\* CommandLineParser::print_help
print_help ==
    /\ pc = "setup"
    /\ pc' = "help"
    /\ IF (has_required_positionals \/ has_optional_positionals)
          /\ m_positional = NullPtr
       THEN /\ outs' = UsageLine
            /\ err' \in {AssertionFailed, NullDereference}
       ELSE /\ err' = NoError
            /\ outs' = UsageLine \o Placeholder
                   \o HelpLines(InKeyOrder({k \in DOMAIN m_args :
                                      is_required(objs[m_args[k]])}), "Required:")
                   \o HelpLines(InKeyOrder({k \in DOMAIN m_args :
                                      ~is_required(objs[m_args[k]])}), "Optional:")
    /\ UNCHANGED <<objs, registry, tokens, first, reads>>

\* This caller registers one of its descriptors: two positional groups,
\* three named descriptors.
SetupRegister ==
    /\ pc = "setup"
    /\ \/ \E id \in {"pos", "pos2"} : \E o \in SetupPositionalVariants(id) :
              AddPositional(id, o)
       \/ \E id \in SetupNamedIds : \E o \in SetupNamedVariantsOf(id) : AddNamed(id, o)

SetupParse ==
    /\ pc = "setup"
    /\ \E toks \in SetupStreams : ParseBegin(toks)

SetupNext ==
    \/ SetupRegister
    \/ SetupParse
    \/ print_help
    \/ ScanEnd
    \/ ScanSeparator
    \/ ScanLong
    \/ ScanShort
    \/ ScanOther

SpecSetup == Init /\ [][SetupNext]_vars

-----------------------------------------------------------------------------
(* Vocabulary of the properties, defined on the tokens and the descriptors *)
(* and not through the operators of the engine                             *)

\* parse has returned or raised.
Finished == pc \in {"done", "failed"}

Succeeded == pc = "done"

\* The descriptors m_args refers to.
NamedIds == {m_args[k] : k \in DOMAIN m_args}

HasPositional == m_positional # NullPtr

\* Some registered parameter, named or positional, is required.
AnyRequired ==
    \/ \E id \in NamedIds : objs[id].required
    \/ (HasPositional /\ objs[m_positional].required)

\* The token begins with a dash.
Dashed(t) == Len(t) >= 1 /\ t[1] = "-"

\* The number of tokens that follow position i up to, and without, the next
\* dashed token or the end of the stream.
RunAfter(i) ==
    CHOOSE j \in 0 .. (Len(tokens) - i) :
        /\ \A m \in 1 .. j : ~Dashed(tokens[i + m])
        /\ (i + j = Len(tokens) \/ Dashed(tokens[i + j + 1]))

\* The exceptions of parse that report an arity violation of the positional
\* group.
PositionalArityErrors == {"fewer_for_positional", "more_for_positional"}

\* The scan of the running or finished parse stopped at a bare "--".
StoppedAtSeparator ==
    /\ Finished
    /\ first <= Len(tokens)
    /\ tokens[first] = Separator

\* The number of tokens after the "--" the scan stopped at.
AfterSeparator == Len(tokens) - first

\* The tokens that name the descriptor o as a flag: "-short" and "--long".
FlagTokens(o) ==
    (IF o.short_name # Empty THEN {<<"-">> \o o.short_name} ELSE {})
    \cup
    (IF o.long_name # Empty THEN {<<"-", "-">> \o o.long_name} ELSE {})

\* The positions before the scan position that hold a flag token of the
\* descriptor id: its occurrences in the scanned part of the stream.
Occ(id) == {i \in 1 .. (first - 1) : tokens[i] \in FlagTokens(objs[id])}

LastOcc(id) == CHOOSE i \in Occ(id) : \A j \in Occ(id) : j <= i

\* The integer a value token stands for.
IntOf(t) == CASE t = Tok_8 -> 8 [] t = Tok_6 -> 6 [] OTHER -> 0

\* The name a diagnostic gives the descriptor o: long if there is one.
NameOf(o) == IF o.long_name # Empty THEN o.long_name ELSE o.short_name

\* The registered named descriptors that are required and were not set.
MissingNamed == {id \in NamedIds : objs[id].required /\ ~objs[id].set_by_user}

\* The exceptions parse raises while it scans the named part of the stream.
ScanErrors == {"not_a_valid_argument", "fewer_for_flag", "leftover_arguments",
               "missing_value", "map::at"}

-----------------------------------------------------------------------------
(* Properties *)

\* C1: parse on an empty token stream succeeds if and only if no registered
\* parameter, named or positional, is required.
C1_EmptyStreamSucceedsIffNothingRequired ==
    (Finished /\ tokens = Empty) => (Succeeded <=> ~AnyRequired)

\* C2: when the scan stops at a bare "--" and a positional group is
\* registered, k tokens after the "--" with min_values <= k <= max_values are
\* accepted: parse raises no arity error for the positional group.
C2_TokensAfterSeparatorWithinArityAccepted ==
    ( /\ StoppedAtSeparator
      /\ HasPositional
      /\ objs[m_positional].num_values_min <= AfterSeparator
      /\ AfterSeparator <= objs[m_positional].num_values_max )
    => err.what \notin PositionalArityErrors

\* C3: after a successful parse the positional group never holds more than
\* max_values values.
C3_PositionalNeverHoldsMoreThanMax ==
    (Succeeded /\ HasPositional)
    => Len(objs[m_positional].values) <= objs[m_positional].num_values_max

\* C4: after a successful parse, a fixed-arity-n flag that occurred holds
\* exactly the n tokens that follow its (last) flag token, in stream order.
C4_FixedArityFlagHoldsFollowingTokens ==
    \A id \in NamedIds :
        (Succeeded /\ objs[id].impl = "fixed" /\ Occ(id) # {})
        => /\ objs[id].set_by_user
           /\ objs[id].values =
                  [j \in 1 .. objs[id].num_values_min |->
                      IntOf(tokens[LastOcc(id) + j])]

\* `-n 8 6` parsed: the analogue of `-r 800 600`.
C4_Witness ==
    /\ Succeeded
    /\ tokens = <<Tok_n, Tok_8, Tok_6>>
    /\ "n" \in NamedIds
    /\ objs["n"].impl = "fixed"
    /\ objs["n"].values = <<8, 6>>

\* The last read call of the log for descriptor id is number k.
IsLastReadOf(id, k) ==
    /\ reads[k].id = id
    /\ \A k2 \in (k + 1) .. Len(reads) : reads[k2].id # id

\* C5: an occurrence of a list flag of arity [0, unbounded) reads exactly the
\* run of non-dash tokens that follows its flag token, in order, and stops at
\* the next dashed token; when that token is not the bare "--" it is resolved
\* and parsed as a flag in its own right.
C5_ListFlagStopsAtNextFlag ==
    \A k \in 1 .. Len(reads) :
        LET rc == reads[k]
            p  == rc.from - 1
        IN  ( /\ rc.id \in NamedIds
              /\ objs[rc.id].impl = "runtime"
              /\ objs[rc.id].num_values_min = 0
              /\ objs[rc.id].num_values_max = SizeMax )
            => /\ tokens[p] \in FlagTokens(objs[rc.id])
               /\ rc.to = p + 1 + RunAfter(p)
               /\ IsLastReadOf(rc.id, k)
                      => objs[rc.id].values = SubSeq(tokens, rc.from, rc.to - 1)
               /\ (Succeeded /\ rc.to <= Len(tokens) /\ tokens[rc.to] # Separator)
                      => \E k2 \in 1 .. Len(reads) :
                            /\ reads[k2].from = rc.to + 1
                            /\ reads[k2].id \in NamedIds
                            /\ tokens[rc.to] \in FlagTokens(objs[reads[k2].id])

\* `--tags 8 -n 6` parsed: the analogue of `--tags a b --name X`.
C5_Witness ==
    /\ Succeeded
    /\ tokens = <<Tok_tags, Tok_8, Tok_n, Tok_6>>
    /\ {"n", "tags"} \subseteq NamedIds
    /\ objs["tags"].values = <<Tok_8>>
    /\ objs["n"].values = <<6>>

\* C6: after a successful parse, a fixed-arity-1 flag that occurred several
\* times holds the one value given with its last occurrence.
C6_RepeatedSingleFlagLastWins ==
    \A id \in NamedIds :
        (Succeeded /\ objs[id].impl = "single" /\ Cardinality(Occ(id)) >= 2)
        => /\ objs[id].has_value
           /\ objs[id].values = <<IntOf(tokens[LastOcc(id) + 1])>>

\* `-n 8 -n 6` parsed: the analogue of `--name A --name B`.
C6_Witness ==
    /\ Succeeded
    /\ tokens = <<Tok_n, Tok_8, Tok_n, Tok_6>>
    /\ "n" \in NamedIds
    /\ objs["n"].impl = "single"
    /\ objs["n"].values = <<6>>

\* The value a token gives a descriptor of value type vtype.
ValueOf(t, vtype) == IF vtype = "int" THEN IntOf(t) ELSE t

\* The list implementations: descriptors that store a sequence of values.
ListImpls == {"fixed", "runtime", "list_value"}

\* C7: after a successful parse, a list flag that occurred several times
\* holds exactly the values read for its last occurrence (the run of value
\* tokens that follows its last flag token, cut at max_values); nothing of
\* an earlier occurrence is kept or appended to.
C7_RepeatedListFlagLastWins ==
    \A id \in NamedIds :
        (Succeeded /\ objs[id].impl \in ListImpls /\ Cardinality(Occ(id)) >= 2)
        => LET p == LastOcc(id)
               n == Min(objs[id].num_values_max, RunAfter(p))
           IN  objs[id].values =
                   [j \in 1 .. n |-> ValueOf(tokens[p + j], objs[id].vtype)]

\* C8 as stated: whenever the scan of the stream raised nothing and a
\* registered named descriptor is required and not set, parse fails with the
\* parse error that names that descriptor.
C8_EveryMissingRequiredFlagIsReported ==
    \A id \in NamedIds :
        ( /\ Finished
          /\ err.what \notin ScanErrors
          /\ objs[id].required
          /\ ~objs[id].set_by_user )
        => /\ pc = "failed"
           /\ err = ParseError("required_flag_not_provided", NameOf(objs[id]), 0, 0)

\* The first required and unset named descriptor in the order of m_args.
FirstMissingNamed ==
    CHOOSE id \in MissingNamed :
        \A k \in DOMAIN m_args :
            (m_args[k] \in MissingNamed \ {id})
            => KeyLess(Key(objs[id].short_name, objs[id].long_name), k)

\* C8, amended: when some registered named descriptor is required and not
\* set, parse never succeeds, and unless the scan or the positional group
\* raised an error before, parse raises the parse error that names the first
\* such descriptor in the key order of the table, by its long name when that
\* is not empty and by its short name otherwise.
C8_MissingRequiredFlagIsReported ==
    (Finished /\ MissingNamed # {})
    => /\ pc = "failed"
       /\ err.kind = "parse"
       /\ err.what \notin (ScanErrors \cup PositionalArityErrors)
              => err = ParseError("required_flag_not_provided",
                                  NameOf(objs[FirstMissingNamed]), 0, 0)

\* Both flags are required and missing: the report names `tags`, first in the
\* key order and named by its long name.
C8_Witness ==
    /\ pc = "failed"
    /\ MissingNamed = {"n", "tags"}
    /\ err.what = "required_flag_not_provided"
    /\ err.name = Name_tags

\* C9: a flag token followed by fewer non-dash tokens than the flag's
\* min_values makes parse fail with the parse error that reports the number
\* supplied, the number required and the flag, and the descriptor is not
\* read for that occurrence; no scanned occurrence has fewer than min_values.
C9_FewerThanMinIsReported ==
    /\ \A id \in NamedIds :
          /\ \A i \in Occ(id) : RunAfter(i) >= objs[id].num_values_min
          /\ ( /\ Finished
               /\ first <= Len(tokens)
               /\ tokens[first] \in FlagTokens(objs[id])
               /\ RunAfter(first) < objs[id].num_values_min )
             => /\ pc = "failed"
                /\ err = ParseError("fewer_for_flag", NameOf(objs[id]),
                                    RunAfter(first), objs[id].num_values_min)
                /\ \A k \in 1 .. Len(reads) : reads[k].from # first + 1
                /\ Occ(id) = {} => (~objs[id].set_by_user /\ objs[id].values = Empty)
    /\ err.what = "fewer_for_flag"
          => \E id \in NamedIds :
                /\ tokens[first] \in FlagTokens(objs[id])
                /\ err.supplied < objs[id].num_values_min

\* `-n 8` for the arity-2 flag: 1 supplied, 2 required.
C9_Witness ==
    /\ pc = "failed"
    /\ tokens = <<Tok_n, Tok_8>>
    /\ err = ParseError("fewer_for_flag", Name_n, 1, 2)
    /\ ~objs["n"].set_by_user

\* C10: when the scan stops at a bare "--" that no token follows, the stream
\* is accepted by a positional group with min_values 0 (parse succeeds unless
\* a required flag is missing) and rejected with a parse error by a group
\* with min_values >= 1.
C10_EmptyRemainderAfterSeparator ==
    (StoppedAtSeparator /\ AfterSeparator = 0 /\ HasPositional)
    => IF objs[m_positional].num_values_min = 0
       THEN /\ err.what \notin PositionalArityErrors
            /\ MissingNamed = {} => Succeeded
       ELSE /\ pc = "failed"
            /\ err = ParseError("fewer_for_positional", Empty, 0,
                                objs[m_positional].num_values_min)

\* `-n 8 --` rejected by a positional group that needs one value.
C10_Witness ==
    /\ pc = "failed"
    /\ tokens = <<Tok_n, Tok_8, Separator>>
    /\ HasPositional
    /\ objs[m_positional].num_values_min = 1
    /\ err.what = "fewer_for_positional"

-----------------------------------------------------------------------------
(* Properties of registration and of print_help *)

\* The descriptor o has a non-empty short name or a non-empty long name that
\* a descriptor of the lookup table has too.
Collides(o) ==
    \E id \in NamedIds :
        \/ (o.short_name # Empty /\ o.short_name = objs[id].short_name)
        \/ (o.long_name # Empty /\ o.long_name = objs[id].long_name)

\* No two entries of the lookup table share a non-empty short name or a
\* non-empty long name.
NoSharedNames ==
    \A k1, k2 \in DOMAIN m_args :
        k1 # k2 => /\ (k1[1] # Empty => k1[1] # k2[1])
                   /\ (k1[2] # Empty => k1[2] # k2[2])

\* C11: an add of a named descriptor whose non-empty short name or non-empty
\* long name is that of a descriptor of the lookup table raises a setup error
\* and inserts nothing into the table, and in every state no two entries of
\* the table share a non-empty short name or a non-empty long name.
C11_DuplicateNameIsSetupError ==
    /\ []NoSharedNames
    /\ [][\A id \in SetupNamedIds : \A o \in SetupNamedVariants :
            (AddNamed(id, o) /\ Collides(o))
            => (err'.kind = "setup" /\ m_args' = m_args)]_vars

\* After `--tags` was registered with short name n, a descriptor with the
\* same long name and another short name was refused.
C11_Witness ==
    /\ pc = "setup"
    /\ err = SetupError("long_name_exists", Name_tags)
    /\ DOMAIN m_args = {Key(Name_n, Name_tags)}
    /\ "b" \in DOMAIN objs
    /\ objs["b"].short_name = Name_v

\* The positional groups this caller owns.
SetupPositionalIds == {"pos", "pos2"}

\* C12: an add of a positional group while one is registered raises a setup
\* error and leaves m_positional at the first group; once a group is
\* registered m_positional never changes, so at most one group is registered.
C12_SecondPositionalIsSetupError ==
    /\ [][\A id \in SetupPositionalIds : \A o \in PositionalVariants :
            (AddPositional(id, o) /\ m_positional # NullPtr)
            => (err' = SetupError("positional_twice", Empty)
                /\ m_positional' = m_positional)]_vars
    /\ [][m_positional # NullPtr => m_positional' = m_positional]_vars
    /\ [](m_positional \in SetupPositionalIds \cup {NullPtr})

\* The caller constructed both groups; the second add was refused and the
\* first group is still the registered one.
C12_Witness ==
    /\ pc = "setup"
    /\ err = SetupError("positional_twice", Empty)
    /\ m_positional = "pos"
    /\ "pos2" \in DOMAIN objs

\* The add of descriptor o as id has inserted it, keyed by its pair of names.
Accepted(id, o) ==
    /\ err' = NoError
    /\ Key(o.short_name, o.long_name) \notin DOMAIN m_args
    /\ m_args' = m_args @@ (Key(o.short_name, o.long_name) :> id)

\* C13: an add of a named descriptor with both names empty raises the setup
\* error and leaves the two name tables and the descriptor table as they
\* were; an add of a descriptor with exactly one empty name, whose other name
\* no registered descriptor has, is accepted and keyed by the (short, long)
\* pair with the empty string for the absent name.
C13_EmptyNames ==
    [][\A id \in SetupNamedIds : \A o \in SetupNamedVariants :
        AddNamed(id, o)
        => /\ (o.short_name = Empty /\ o.long_name = Empty)
                  => (err' = SetupError("no_name", Empty)
                      /\ UNCHANGED registry)
           /\ ( /\ (o.short_name = Empty) # (o.long_name = Empty)
                /\ ~Collides(o) )
                  => Accepted(id, o)]_vars

-----------------------------------------------------------------------------
(* Properties of the errors of parse *)

\* The non-empty short names and long names of the registered descriptors.
RegisteredShortNames == {objs[id].short_name : id \in NamedIds} \ {Empty}

RegisteredLongNames == {objs[id].long_name : id \in NamedIds} \ {Empty}

\* The token is written as a long flag ("--" and more) or as a short flag
\* (one "-").
LongForm(t) == Len(t) > 2 /\ t[1] = "-" /\ t[2] = "-"

ShortForm(t) == Dashed(t) /\ ~(Len(t) >= 2 /\ t[2] = "-")

\* The name the flag token t carries.
FlagName(t) == IF LongForm(t) THEN SubSeq(t, 3, Len(t)) ELSE SubSeq(t, 2, Len(t))

\* The flag token t names no registered descriptor.
UnknownFlag(t) ==
    \/ (LongForm(t) /\ FlagName(t) \notin RegisteredLongNames)
    \/ (ShortForm(t) /\ FlagName(t) \notin RegisteredShortNames)

\* The scan is at a token.
Scanning == pc = "scan" /\ first <= Len(tokens)

\* C14: when the scan is at a long-form or short-form token whose name no
\* registered descriptor has, the step of parse at that token fails with the
\* parse error "not a valid argument" for that name; the scan position does
\* not move and no descriptor is read.
C14_UnknownFlagIsParseError ==
    [][(Scanning /\ UnknownFlag(tokens[first]))
       => /\ pc' = "failed"
          /\ err' = ParseError("not_a_valid_argument", FlagName(tokens[first]), 0, 0)
          /\ first' = first
          /\ reads' = reads
          /\ objs' = objs]_vars

\* C15: when the scan is at a token with no leading dash and no positional
\* group is registered, the step of parse at that token fails with the parse
\* error for leftover arguments.
C15_LeftoverWithoutPositional ==
    [][(Scanning /\ ~Dashed(tokens[first]) /\ ~HasPositional)
       => /\ pc' = "failed"
          /\ err' = ParseError("leftover_arguments", Empty, 0, 0)
          /\ first' = first
          /\ objs' = objs]_vars

\* `-n 8 6` with the arity-1 flag n and no positional group: 6 is left over.
C15_Witness ==
    /\ pc = "failed"
    /\ ~HasPositional
    /\ tokens = <<Tok_n, Tok_8, Tok_6>>
    /\ first = 3
    /\ objs["n"].values = <<8>>
    /\ err = ParseError("leftover_arguments", Empty, 0, 0)

\* C16: whatever parse raises is a parse error (no setup error, no other
\* exception, no failed assertion), and whatever add raises is a setup error.
C16_ParseRaisesOnlyParseErrors ==
    /\ pc = "failed" => err.kind = "parse"
    /\ pc = "setup" => err.kind \in {"none", "setup"}

DecimalDigits == {"0", "1", "2", "3", "4", "5", "6", "7", "8", "9"}

\* The token is the decimal writing of a number.
IsNumber(t) == Len(t) >= 1 /\ \A i \in 1 .. Len(t) : t[i] \in DecimalDigits

\* The read call rc handed its descriptor a token that its value type cannot
\* be converted from.
HandedUnconvertible(rc) ==
    /\ objs[rc.id].vtype = "int"
    /\ \E j \in rc.from .. (rc.to - 1) : ~IsNumber(tokens[j])

\* The parse errors that report a wrong number of values.
ArityErrors == {"missing_value", "fewer_for_flag"} \cup PositionalArityErrors

\* C17: once a descriptor was handed a token that cannot be converted to its
\* value type, parse has failed with a parse error that is not an arity
\* error; it neither goes on nor succeeds with a default value stored.
C17_ConversionFailureIsParseError ==
    \A k \in 1 .. Len(reads) :
        HandedUnconvertible(reads[k])
        => /\ pc = "failed"
           /\ err.kind = "parse"
           /\ err.what \notin ArityErrors

\* C18: every iteration of the scan loop either ends parse (it returns or
\* raises) or moves the scan position forward by at least one token and not
\* past the end of the stream, and every parse that was started ends.
C18_ParseTerminates ==
    /\ [][pc = "scan"
          => \/ pc' \in {"done", "failed"}
             \/ (pc' = "scan" /\ first < first' /\ first' <= last)]_vars
    /\ (pc = "scan") ~> Finished

\* `--tags --tags`: a parse that went through two iterations of the loop,
\* left it at the end of the stream and returned.
C18_Witness ==
    /\ Succeeded
    /\ tokens = <<Tok_tags, Tok_tags>>
    /\ first = 3
    /\ Len(reads) = 2

\* The entries of parse that SpecRunning starts from are the states in which
\* Spec enters parse.
EntryOfParse ==
    (pc = "scan" /\ first = 1 /\ reads = Empty /\ Len(tokens) <= RunMaxLen)
    => ParseEntry

-----------------------------------------------------------------------------
(* Properties of the ambiguity flag and of the usage line *)

\* The descriptor takes a number of values that is not fixed.
VariableLength(o) == o.num_values_min # o.num_values_max

\* A positional group is registered that is variable-length or optional, and
\* some registered named descriptor is variable-length.
AmbiguousRegistry ==
    /\ HasPositional
    /\ (VariableLength(objs[m_positional]) \/ ~objs[m_positional].required)
    /\ \E id \in NamedIds : VariableLength(objs[id])

\* print_help has been called.
HelpPrinted == pc = "help"

\* The words of the usage line.
UsageWords == {outs[i] : i \in 1 .. Len(outs)}

\* C19: is_ambiguous is true exactly when a positional group is registered
\* that is variable-length or optional and some registered named descriptor
\* is variable-length (so it is false for a fixed-arity required group), and
\* the usage line print_help wrote has the "--" hint exactly in that case.
C19_AmbiguityFlagAndHint ==
    /\ is_ambiguous <=> AmbiguousRegistry
    /\ (HasPositional /\ ~VariableLength(objs[m_positional])
           /\ objs[m_positional].required) => ~is_ambiguous
    /\ HelpPrinted => (("--" \in UsageWords) <=> AmbiguousRegistry)

\* The usage line has the hint: an optional unbounded group next to the
\* variable-length flag --tags.
C19_Witness ==
    /\ HelpPrinted
    /\ "--" \in UsageWords
    /\ HasPositional
    /\ ~objs[m_positional].required
    /\ \E id \in NamedIds : objs[id].long_name = Name_tags /\ objs[id].impl = "runtime"

\* C20: the usage line print_help wrote has the positional placeholder in
\* angle brackets when the registered group is required and in square
\* brackets when it is optional.
C20_PlaceholderBrackets ==
    (HelpPrinted /\ HasPositional)
    => IF objs[m_positional].required
       THEN "<positional>" \in UsageWords /\ "[positional]" \notin UsageWords
       ELSE "[positional]" \in UsageWords /\ "<positional>" \notin UsageWords

-----------------------------------------------------------------------------
(* Arity bounds chosen by the caller: the same parser of                     *)
(* src/CommandLineParser.hpp with a flag whose arity is given at run time,   *)
(* and a stream that holds a negative number.                                *)

ArityMaxLen == 3

\* "-5": a negative number, which begins with a dash.
Tok_m5 == <<"-", "5">>

ArityTokens == {Separator, Tok_n, Tok_tags, Tok_m5, Tok_8}

ArityStreams == SeqsUpTo(ArityTokens, ArityMaxLen)

\* The ways this caller constructs its flag -n/--tags.  The constructor of
\* NamedParameter<T, runtime_decision> stores the two counts it is given as
\* they are, whatever their order.
ArityNamedVariants ==
    {SingleNamed(Name_n, Name_tags, FALSE, "int"),
     RuntimeNamed(Name_n, Name_tags, FALSE, "int", 0, SizeMax),
     RuntimeNamed(Name_n, Name_tags, FALSE, "int", 2, 1)}

ArityRegister ==
    /\ pc = "setup"
    /\ \/ AddPositional("pos", PositionalGroup(FALSE, "string", 0, SizeMax))
       \/ \E o \in ArityNamedVariants : AddNamed("n", o)

ArityParse ==
    /\ pc = "setup"
    /\ \E toks \in ArityStreams : ParseBegin(toks)

ArityNext ==
    \/ ArityRegister
    \/ ArityParse
    \/ ScanEnd
    \/ ScanSeparator
    \/ ScanLong
    \/ ScanShort
    \/ ScanOther

SpecArity == Init /\ [][ArityNext]_vars

-----------------------------------------------------------------------------
(* Properties of the arity bounds and of sub-argument consumption *)

\* The number of tokens a logged read call was handed.
ReadCount(rc) == rc.to - rc.from

\* C21: every registered descriptor has min_values <= max_values, and no
\* occurrence of a flag reads fewer tokens than the min_values of its
\* descriptor.
C21_ArityBoundsOrdered ==
    /\ \A id \in NamedIds :
           objs[id].num_values_min <= objs[id].num_values_max
    /\ \A k \in 1 .. Len(reads) :
           reads[k].id \in NamedIds
           => ReadCount(reads[k]) >= objs[reads[k].id].num_values_min

\* C22: an occurrence of a flag at position p whose run of non-dash tokens
\* is at least min_values reads exactly min(max_values, run) tokens, and the
\* scan resumes at p + 1 + that number: the next read starts there, and a
\* token of the run beyond max_values is not consumed by the flag but goes
\* to the positional group or raises the leftover error.
C22_ReadsMinOfMaxAndRun ==
    \A k \in 1 .. Len(reads) :
        LET rc == reads[k]
            p  == rc.from - 1
            o  == objs[rc.id]
        IN  rc.id \in NamedIds
            => /\ tokens[p] \in FlagTokens(o)
               /\ RunAfter(p) >= o.num_values_min
               /\ ReadCount(rc) = Min(o.num_values_max, RunAfter(p))
               /\ k = Len(reads) => first = rc.to
               /\ (k < Len(reads) /\ reads[k + 1].id \in NamedIds)
                      => reads[k + 1].from - 1 = rc.to
               /\ (k < Len(reads) /\ reads[k + 1].id \notin NamedIds)
                      => reads[k + 1].from = rc.to
               /\ (Finished /\ RunAfter(p) > o.num_values_max)
                      => IF HasPositional
                         THEN \/ /\ k < Len(reads)
                                 /\ reads[k + 1] = ReadCall(m_positional, rc.to, last)
                              \/ /\ k = Len(reads)
                                 /\ err.what \in PositionalArityErrors
                         ELSE /\ k = Len(reads)
                              /\ err.what = "leftover_arguments"

\* `-n 8 6 8` parsed with -n of fixed arity 2 and a positional group: the
\* third value goes to the group.
C22_Witness ==
    /\ Succeeded
    /\ tokens = <<Tok_n, Tok_8, Tok_6, Tok_8>>
    /\ "n" \in NamedIds
    /\ objs["n"].impl = "fixed"
    /\ objs["n"].values = <<8, 6>>
    /\ HasPositional
    /\ objs[m_positional].values = <<Tok_8>>

\* C23: the number of sub-arguments available to a flag at position p is the
\* length of the run of non-dash tokens right after it: it is the count a
\* fewer-than-min error reports, it is what a flag without an upper bound
\* reads, and a flag followed by the negative number -5 is offered none.
C23_AvailableIsRunBeforeDash ==
    /\ err.what = "fewer_for_flag" => err.supplied = RunAfter(first)
    /\ (err.what = "fewer_for_flag" /\ first < Len(tokens)
            /\ tokens[first + 1] = Tok_m5)
           => err.supplied = 0
    /\ \A k \in 1 .. Len(reads) :
           LET rc == reads[k]
               p  == rc.from - 1
           IN  rc.id \in NamedIds
               => /\ objs[rc.id].num_values_max = SizeMax
                         => ReadCount(rc) = RunAfter(p)
                  /\ (rc.from <= Len(tokens) /\ tokens[rc.from] = Tok_m5)
                         => ReadCount(rc) = 0

\* `-n -5 8` with -n of arity 1: the analogue of `-r -5 10`.
C23_Witness ==
    /\ pc = "failed"
    /\ tokens = <<Tok_n, Tok_m5, Tok_8>>
    /\ "n" \in NamedIds
    /\ objs["n"].impl = "single"
    /\ err = ParseError("fewer_for_flag", Name_tags, 0, 1)

-----------------------------------------------------------------------------
(* Properties of the end of the named scan *)

\* Position i lies in the range of tokens a flag occurrence read.
NamedReadCovers(i) ==
    \E k \in 1 .. Len(reads) :
        /\ reads[k].id \in NamedIds
        /\ reads[k].from <= i
        /\ i < reads[k].to

\* The positions where the named scan stops if it gets there: a bare "--" or
\* a token without a dash that no flag occurrence has read.
StopPositions ==
    {i \in 1 .. Len(tokens) :
        /\ (tokens[i] = Separator \/ ~Dashed(tokens[i]))
        /\ ~NamedReadCovers(i)}

\* The exceptions parse raises when it resolves a dashed token as a flag.
FlagErrors == {"not_a_valid_argument", "fewer_for_flag", "map::at"}

\* C24: no token after the position where the named scan stopped (a bare
\* "--" or the first token without a dash that is no sub-argument) is
\* resolved as a flag: every flag occurrence that was read lies before that
\* position, and so does the token of every error of flag resolution.
C24_NoFlagAfterScanStopped ==
    \A s \in StopPositions :
        /\ \A k \in 1 .. Len(reads) :
               reads[k].id \in NamedIds => reads[k].from - 1 < s
        /\ err.what \in FlagErrors => first < s

\* `8 -n 6` parsed with -n and a positional group registered: the scan stops
\* at 8, -n is not read as a flag and the three tokens go to the group.
C24_Witness ==
    /\ Succeeded
    /\ tokens = <<Tok_8, Tok_n, Tok_6>>
    /\ "n" \in NamedIds
    /\ ~objs["n"].set_by_user
    /\ HasPositional
    /\ objs[m_positional].values = <<Tok_8, Tok_n, Tok_6>>

-----------------------------------------------------------------------------
(* ParameterBase::read called on a descriptor: read is a public member, and  *)
(* the parser is one of its callers.                                         *)

ReadMaxLen == 2

\* The number of read calls the caller makes on its descriptor.
MaxReads == 2

\* The descriptors read is called on: one of each implementation of read_impl.
ReadVariants ==
    {SingleNamed(Name_n, Empty, FALSE, "int"),
     RuntimeNamed(Name_n, Empty, FALSE, "string", 0, SizeMax),
     PositionalGroup(FALSE, "string", 0, SizeMax)}

\* A descriptor as constructed and the tokens its caller holds.
ReadInit ==
    /\ objs \in {[id \in {"n"} |-> o] : o \in ReadVariants}
    /\ m_short_to_long = EmptyMap
    /\ m_long_to_short = EmptyMap
    /\ m_args = EmptyMap
    /\ m_positional = NullPtr
    /\ tokens \in SeqsUpTo({Tok_8, Tok_6}, ReadMaxLen)
    /\ first = 1
    /\ pc = "setup"
    /\ err = NoError
    /\ reads = Empty
    /\ outs = Empty

\* obj.read(from, to) on a range of the tokens.
CallRead ==
    /\ Len(reads) < MaxReads
    /\ \E from \in 1 .. last : \E to \in from .. last :
       \E r \in {read(objs["n"], tokens, from, to)} :
           /\ objs' = [objs EXCEPT !["n"] = r.obj]
           /\ err' = r.raised
           /\ reads' = Append(reads, ReadCall("n", from, to))
    /\ UNCHANGED <<registry, tokens, first, pc, outs>>

SpecRead == ReadInit /\ [][CallRead]_vars

-----------------------------------------------------------------------------
(* Properties of set_by_user *)

\* The exception of read_impl: the read did not complete.
ReadRaised == err.what = "missing_value"

\* The step logs a read call of descriptor id.
ReadOf(id) ==
    /\ Len(reads') = Len(reads) + 1
    /\ reads'[Len(reads')].id = id

\* Descriptor id has been read by now.
WasRead(id) == \E k \in 1 .. Len(reads) : reads[k].id = id

\* C25: set_by_user is false from construction until the first read of the
\* descriptor; a step turns it true only by a read of that descriptor that
\* completed; a completed read leaves it true; a read that raised leaves it
\* as it was; and no step turns it back to false.
C25_SetByUserOnlyRises ==
    /\ [](\A id \in DOMAIN objs : ~WasRead(id) => ~objs[id].set_by_user)
    /\ [][\A id \in DOMAIN objs :
            /\ objs[id].set_by_user => objs'[id].set_by_user
            /\ (~objs[id].set_by_user /\ objs'[id].set_by_user)
                   => (ReadOf(id) /\ ~ReadRaised')
            /\ (ReadOf(id) /\ ~ReadRaised') => objs'[id].set_by_user
            /\ (ReadOf(id) /\ ReadRaised')
                   => objs'[id].set_by_user = objs[id].set_by_user]_vars

\* A read of the single-value descriptor completed, then a read of an empty
\* range raised: set_by_user is still true.
C25_Witness ==
    /\ objs["n"].impl = "single"
    /\ reads = <<ReadCall("n", 1, 2), ReadCall("n", 2, 2)>>
    /\ ReadRaised
    /\ objs["n"].set_by_user

-----------------------------------------------------------------------------
(* Properties of the descriptors of src/main.cpp *)

\* The values the first k read calls of the log handed to descriptor id, in
\* the order they were read.
RECURSIVE ValuesReadBy(_, _)
ValuesReadBy(id, k) ==
    IF k = 0 THEN Empty
    ELSE ValuesReadBy(id, k - 1) \o
         (IF reads[k].id = id
          THEN [j \in 1 .. ReadCount(reads[k]) |->
                   ValueOf(tokens[reads[k].from + j - 1], objs[id].vtype)]
          ELSE Empty)

\* The list descriptors of src/main.cpp, which are constructed with defaults.
DefaultedLists == {"list_value", "list_positional"}

\* C26: a list descriptor that was read holds the values of the tokens its
\* read calls were handed and nothing else: the defaults it was constructed
\* with are gone from its first read on.  Until then it holds its defaults.
C26_DefaultsGoneAfterFirstRead ==
    \A id \in DOMAIN objs :
        objs[id].impl \in DefaultedLists
        => /\ objs[id].set_by_user
                  => objs[id].values = ValuesReadBy(id, Len(reads))
           /\ (~objs[id].set_by_user /\ objs[id].vtype = "int")
                  => objs[id].values = <<5>>

\* `--tags 8` parsed with the list of int constructed with the default {5}.
C26_Witness ==
    /\ Succeeded
    /\ tokens = <<Tok_tags, Tok_8>>
    /\ "tags" \in NamedIds
    /\ objs["tags"].impl = "list_value"
    /\ objs["tags"].vtype = "int"
    /\ objs["tags"].values = <<8>>

-----------------------------------------------------------------------------
(* Properties of the parameters a stream does not mention *)

\* The scan consumed the whole stream: no token is left for the positional
\* group.
NoPositionalToken == first > Len(tokens)

\* C27: a successful parse does not touch an optional parameter the stream
\* does not mention: a named descriptor whose flag never occurs, and the
\* positional group when no positional token is present, are not read and
\* have the value and the set_by_user they were constructed with.
C27_AbsentOptionalUntouched ==
    Succeeded
    => /\ \A id \in NamedIds :
              (~objs[id].required /\ Occ(id) = {})
              => /\ ~WasRead(id)
                 /\ ~objs[id].set_by_user
                 /\ ~objs[id].has_value
                 /\ objs[id].values = Empty
       /\ (HasPositional /\ ~objs[m_positional].required /\ NoPositionalToken)
              => /\ ~WasRead(m_positional)
                 /\ ~objs[m_positional].set_by_user
                 /\ objs[m_positional].values = Empty

\* C28: a counter has arity 0; each occurrence of its flag reads no token and
\* the token right after it is scanned on its own; after a successful parse
\* its value is the number of occurrences of its flag in the scanned part of
\* the stream.
C28_CounterCountsOccurrences ==
    \A id \in NamedIds :
        objs[id].impl = "counter"
        => /\ objs[id].num_values_min = 0
           /\ objs[id].num_values_max = 0
           /\ \A k \in 1 .. Len(reads) :
                  reads[k].id = id
                  => /\ ReadCount(reads[k]) = 0
                     /\ tokens[reads[k].from - 1] \in FlagTokens(objs[id])
                     /\ k = Len(reads) => first = reads[k].from
                     /\ (k < Len(reads) /\ reads[k + 1].id \in NamedIds)
                            => reads[k + 1].from - 1 = reads[k].from
           /\ Succeeded => objs[id].values = <<Cardinality(Occ(id))>>

\* `-n --tags 8 -n` parsed with -n a counter: it counts 2.
C28_Witness ==
    /\ Succeeded
    /\ tokens = <<Tok_n, Tok_tags, Tok_8, Tok_n>>
    /\ {"n", "tags"} \subseteq NamedIds
    /\ objs["n"].impl = "counter"
    /\ objs["n"].values = <<2>>
    /\ objs["tags"].values = <<Tok_8>>

-----------------------------------------------------------------------------
(* parse called again on the same parser and the same descriptors: the      *)
(* caller keeps both after parse has returned or raised.                     *)

AgainMaxLen == 2

AgainStreams == SeqsUpTo(Tokens, AgainMaxLen)

\* This caller registers named descriptors only: the flags -n and --tags,
\* required or not.
AgainRegister ==
    /\ pc = "setup"
    /\ \E id \in {"n", "tags"} : \E o \in NamedVariants(id) : AddNamed(id, o)

\* The first call of parse.
AgainParse ==
    /\ pc = "setup"
    /\ \E toks \in AgainStreams : ParseBegin(toks)

\* A further call of parse(first, last), after the one before has returned
\* or raised: its locals start anew, the descriptors and the name tables are
\* the members they were.  The log holds the read calls of the current call.
ParseAgain ==
    /\ pc \in {"done", "failed"}
    /\ \E toks \in AgainStreams :
           /\ tokens' = toks
           /\ first' = 1
           /\ pc' = "scan"
           /\ err' = NoError
           /\ reads' = Empty
    /\ UNCHANGED <<objs, registry, outs>>

AgainNext ==
    \/ AgainRegister
    \/ AgainParse
    \/ ParseAgain
    \/ ScanEnd
    \/ ScanSeparator
    \/ ScanLong
    \/ ScanShort
    \/ ScanOther

SpecAgain == Init /\ [][AgainNext]_vars

-----------------------------------------------------------------------------
(* Properties of repeated calls of parse *)

\* C29: the outcome of parse on a stream does not depend on earlier calls:
\* as in a first call, when the scan and the positional group raise nothing
\* and the stream holds no occurrence of a required flag, parse fails and
\* reports a required flag as not provided, whether or not an earlier call
\* supplied it.
C29_OutcomeIndependentOfEarlierCalls ==
    \A id \in NamedIds :
        ( /\ Finished
          /\ objs[id].required
          /\ Occ(id) = {}
          /\ err.what \notin (ScanErrors \cup PositionalArityErrors) )
        => /\ pc = "failed"
           /\ err.what = "required_flag_not_provided"

-----------------------------------------------------------------------------
(* Properties of the two forms of a flag *)

HasBothNames(o) == o.short_name # Empty /\ o.long_name # Empty

\* What one occurrence of the flag of descriptor id at the scan position
\* does, stated on the descriptor and on the tokens that follow, without the
\* form in which the flag is written: fewer tokens than min_values raise the
\* error that names the descriptor; otherwise min(max_values, run) tokens are
\* read into it and the scan resumes after them.
OccurrenceEffect(id) ==
    LET o   == objs[id]
        run == RunAfter(first)
        n   == Min(o.num_values_max, run)
    IN  IF run < o.num_values_min
        THEN /\ pc' = "failed"
             /\ err' = ParseError("fewer_for_flag", NameOf(o), run, o.num_values_min)
             /\ UNCHANGED <<objs, reads, first>>
        ELSE /\ pc' = "scan"
             /\ err' = NoError
             /\ first' = first + 1 + n
             /\ reads' = Append(reads, ReadCall(id, first + 1, first + 1 + n))
             /\ objs' = [objs EXCEPT ![id] =
                   [o EXCEPT !.set_by_user = TRUE,
                             !.has_value = (o.impl = "single" \/ n > 0),
                             !.values = [j \in 1 .. n |->
                                            ValueOf(tokens[first + j], o.vtype)]]]

\* C30: for a registered descriptor that has a short and a long name, the
\* step of the scan on `-short` and the step on `--long` resolve to that
\* descriptor and do the same to it and to the scan, so a stream and the
\* stream with one form replaced by the other end in the same outcome and
\* the same values.
C30_ShortAndLongResolveAlike ==
    [][\A id \in NamedIds :
          ( /\ Scanning
            /\ HasBothNames(objs[id])
            /\ tokens[first] \in FlagTokens(objs[id]) )
          => OccurrenceEffect(id)]_vars

\* `-n --tags` parsed with one descriptor named -n and --tags: both tokens
\* are occurrences of it.
C30_Witness ==
    /\ Succeeded
    /\ tokens = <<Tok_n, Tok_tags>>
    /\ \E id \in NamedIds :
           /\ objs[id].short_name = Name_n
           /\ objs[id].long_name = Name_tags
           /\ reads = <<ReadCall(id, 2, 2), ReadCall(id, 3, 3)>>

-----------------------------------------------------------------------------
(* One call of parse of src/main.cpp, run to its end *)

DriverRunMaxLen == 2

\* One iteration of the loop of parse of src/main.cpp, or its exit.
DriverScanStep ==
    \/ DriverScanEnd
    \/ DriverScanSeparator
    \/ DriverScanLong
    \/ DriverScanShort
    \/ DriverScanOther

DriverRunParse ==
    /\ pc = "setup"
    /\ \E toks \in SeqsUpTo(Tokens, DriverRunMaxLen) : ParseBegin(toks)

DriverRunNext ==
    \/ DriverRegister
    \/ DriverRunParse
    \/ DriverScanStep

\* The variant with a call of parse that keeps executing once started: the
\* loop is sequential code that waits for nothing.
SpecDriverRunning ==
    Init /\ [][DriverRunNext]_vars /\ WF_vars(DriverScanStep)

\* C31: parse of src/main.cpp ends on every finite stream: every iteration
\* of its loop either ends parse or moves the scan position forward, a token
\* without a leading dash included, and every parse that was started returns
\* or raises.
C31_DriverParseTerminates ==
    /\ [][pc = "scan" => (pc' \in {"done", "failed"} \/ first' > first)]_vars
    /\ (pc = "scan" /\ first <= Len(tokens) /\ ~Dashed(tokens[first])) ~> Finished
    /\ (pc = "scan") ~> Finished

-----------------------------------------------------------------------------
(* Properties of the registry after a refused add *)

\* Every name of a name table belongs to a descriptor of m_args, under the
\* key the two tables give.
NameTablesMatchArgs ==
    /\ \A s \in DOMAIN m_short_to_long :
           Key(s, m_short_to_long[s]) \in DOMAIN m_args
    /\ \A l \in DOMAIN m_long_to_short :
           Key(m_long_to_short[l], l) \in DOMAIN m_args

\* C32: an add that raises a setup error leaves m_short_to_long,
\* m_long_to_short, m_args and m_positional as they were, and in every state
\* each name of a name table belongs to a descriptor of m_args under the key
\* (short, long).
C32_FailedAddLeavesRegistry ==
    /\ [][(pc = "setup" /\ err'.kind = "setup") => UNCHANGED registry]_vars
    /\ []NameTablesMatchArgs

-----------------------------------------------------------------------------
(* Properties of the tokens a successful parse accounts for *)

\* The read calls of flag occurrences whose range holds position i.
NamedReadsOf(i) ==
    {k \in 1 .. Len(reads) :
        reads[k].id \in NamedIds /\ reads[k].from <= i /\ i < reads[k].to}

\* Position i holds the flag token of an occurrence that was read.
FlagPosition(i) ==
    \E k \in 1 .. Len(reads) :
        reads[k].id \in NamedIds /\ reads[k].from - 1 = i

\* Position i was handed to the positional group.
PositionalReadCovers(i) ==
    \E k \in 1 .. Len(reads) :
        /\ reads[k].id \notin NamedIds
        /\ reads[k].from <= i
        /\ i < reads[k].to

\* C33: a successful parse drops no token: every token of the stream is the
\* flag token of an occurrence that was read, a sub-argument read by exactly
\* one occurrence, the bare "--" the scan stopped at, or was read by the
\* positional group; and without a positional group a stream with tokens
\* after the bare "--" is not parsed successfully.
C33_NoTokenSilentlyDropped ==
    /\ Succeeded
           => \A i \in 1 .. Len(tokens) :
                  \/ FlagPosition(i)
                  \/ Cardinality(NamedReadsOf(i)) = 1
                  \/ (i = first /\ tokens[i] = Separator)
                  \/ PositionalReadCovers(i)
    /\ (StoppedAtSeparator /\ ~HasPositional /\ AfterSeparator > 0)
           => ~Succeeded

\* C34: after a successful parse whose scan stopped at a bare "--", the
\* positional group holds exactly the tokens after the separator, in order,
\* and not the "--" itself.
C34_SeparatorIsNotAValue ==
    (Succeeded /\ StoppedAtSeparator /\ HasPositional)
    => /\ objs[m_positional].values =
              [j \in 1 .. AfterSeparator |->
                  ValueOf(tokens[first + j], objs[m_positional].vtype)]
       /\ \A j \in 1 .. Len(objs[m_positional].values) :
              objs[m_positional].values[j] # Separator

\* C35: the range handed to the descriptor of a flag occurrence starts right
\* after its flag token, holds no token that begins with a dash and ends
\* within the stream, and the scan position is never beyond the end of the
\* stream.
C35_FlagReadsWithinItsRun ==
    /\ first <= Len(tokens) + 1
    /\ \A k \in 1 .. Len(reads) :
           reads[k].id \in NamedIds
           => /\ reads[k].from >= 2
              /\ tokens[reads[k].from - 1] \in FlagTokens(objs[reads[k].id])
              /\ reads[k].from <= reads[k].to
              /\ reads[k].to <= Len(tokens) + 1
              /\ \A i \in reads[k].from .. (reads[k].to - 1) : ~Dashed(tokens[i])

\* `--tags 8 -n 6` parsed: --tags read the one token of its run, up to the
\* dashed token, and -n the last token of the stream.
C35_Witness ==
    /\ Succeeded
    /\ tokens = <<Tok_tags, Tok_8, Tok_n, Tok_6>>
    /\ {"n", "tags"} \subseteq NamedIds
    /\ reads = <<ReadCall("tags", 2, 3), ReadCall("n", 4, 5)>>

-----------------------------------------------------------------------------
(* Properties of the order of the checks of parse *)

\* The scan of the finished parse ended at a dashed token that is no bare
\* "--": the token whose resolution raised.
EndedAtFlag ==
    /\ first <= Len(tokens)
    /\ Dashed(tokens[first])
    /\ tokens[first] # Separator

\* The scan of the finished parse ended where the named scan stops: the end
\* of the stream, a bare "--" or a token without a dash.
EndedAtStop == ~EndedAtFlag

\* The number of tokens left for the positional group: all the tokens from
\* the stop position on, without the bare "--" when the scan stopped at one.
RemainingCount ==
    IF first <= Len(tokens) /\ tokens[first] = Separator
    THEN Len(tokens) - first
    ELSE Len(tokens) - first + 1

\* The stream of the finished parse has an error of the scan or of the
\* positional group: an unknown flag, a flag with fewer tokens than its
\* min_values, a leftover token without a positional group, or a number of
\* positional tokens outside the arity of the group.
StreamError ==
    \/ (EndedAtFlag /\ UnknownFlag(tokens[first]))
    \/ ( /\ EndedAtFlag
         /\ \E id \in NamedIds :
                /\ tokens[first] \in FlagTokens(objs[id])
                /\ RunAfter(first) < objs[id].num_values_min )
    \/ (first <= Len(tokens) /\ ~Dashed(tokens[first]) /\ ~HasPositional)
    \/ ( /\ EndedAtStop
         /\ HasPositional
         /\ \/ RemainingCount < objs[m_positional].num_values_min
            \/ RemainingCount > objs[m_positional].num_values_max )

\* C36: the required parameters are validated after the scan and the
\* positional group: a parse whose stream has an error of the scan or of the
\* positional group never reports the missing required flag in its place.
C36_RequiredValidatedLast ==
    (Finished /\ StreamError) => err.what # "required_flag_not_provided"

-----------------------------------------------------------------------------
(* Properties of the order of registration *)

\* The named descriptors the caller has constructed and handed to add.
AddedNamed == {id \in DOMAIN objs : ~objs[id].positional}

\* The positional groups the caller has constructed and handed to add.
AddedPositional == {id \in DOMAIN objs : objs[id].positional}

\* The descriptors handed to add are such that no add of them throws, in
\* whatever order they come: each named one has a name, no two share a short
\* name or a long name, and there is at most one positional group.
AllAddsSucceeded ==
    /\ \A id \in AddedNamed : objs[id].short_name # Empty \/ objs[id].long_name # Empty
    /\ \A i, j \in AddedNamed :
           i # j => /\ (objs[i].short_name = Empty \/ objs[i].short_name # objs[j].short_name)
                    /\ (objs[i].long_name = Empty \/ objs[i].long_name # objs[j].long_name)
    /\ Cardinality(AddedPositional) <= 1

\* C37: after registration sequences in which every add returned, the three
\* tables and m_positional are the ones written down from the set of the
\* descriptors added, without regard to the order of the adds, so parse,
\* which reads nothing else than the registry, the descriptors and the tokens,
\* starts from the same state for either order; and the missing required flag
\* parse reports is the first in the key order of m_args, not the first added.
C37_RegistryIndependentOfOrder ==
    AllAddsSucceeded
    => /\ m_short_to_long =
              [s \in {objs[id].short_name : id \in AddedNamed} \ {Empty} |->
                  objs[CHOOSE id \in AddedNamed : objs[id].short_name = s].long_name]
       /\ m_long_to_short =
              [l \in {objs[id].long_name : id \in AddedNamed} \ {Empty} |->
                  objs[CHOOSE id \in AddedNamed : objs[id].long_name = l].short_name]
       /\ m_args =
              [k \in {Key(objs[id].short_name, objs[id].long_name) : id \in AddedNamed} |->
                  CHOOSE id \in AddedNamed :
                      Key(objs[id].short_name, objs[id].long_name) = k]
       /\ m_positional = IF AddedPositional = {} THEN NullPtr
                         ELSE CHOOSE id \in AddedPositional : TRUE
       /\ (err.what = "required_flag_not_provided"
           => err.name = NameOf(objs[FirstMissingNamed]))

\* Both named descriptors and the group are registered, both flags are
\* required and absent from the stream, and parse has reported the one whose
\* key comes first.
C37_Witness ==
    /\ pc = "failed"
    /\ AllAddsSucceeded
    /\ HasPositional
    /\ MissingNamed = {"n", "tags"}
    /\ err = ParseError("required_flag_not_provided", Name_tags, 0, 0)

-----------------------------------------------------------------------------
(* Properties of the assertions of print_help *)

\* C38: in every registry that add calls build, with or without a positional
\* group, print_help returns: neither of its assertions on m_positional
\* fails and get_description is not called through a null m_positional.
C38_PrintHelpAssertionsHold ==
    pc = "help" => err \notin {AssertionFailed, NullDereference}

====
